---- MODULE Spec2Model ----
(***************************************************************************)
(* The interactive session driver of tests/testlib.py (Sandbox, Term) and  *)
(* tests/plugin.py (TermNameProvider): a pexpect-driven shell per Term,    *)
(* the prompt protocol that frames command completion, and the capture of  *)
(* redirected output through files of the sandbox root.                    *)
(*                                                                         *)
(* The child shell, the tee/mv pipelines the rewritten command line starts *)
(* and the driver are separate processes: every step of one of them is an  *)
(* action, and the timeouts of the driver (drain, expect, poll) are steps  *)
(* that may be taken whenever the awaited event has not happened yet.      *)
(*                                                                         *)
(* Smaller machines follow for the rc file section, the tmux server link,   *)
(* scripts/srht.py (bounded concurrency, the job polling loop) and         *)
(* scripts/release.py (the CI run functions and wait_ci).                  *)
(***************************************************************************)
EXTENDS Integers, Sequences, FiniteSets, TLC

\* ---------------------------------------------------------------- bounds
\* Terms one sandbox can hold.
NTerms == 2
\* What the test body does, in driver operations: a call of Term.run is
\* one, the creation of a Term two (Term.__init__ drains, then runs `tty`).
MaxCalls == 4
\* Sleeps of _read_output before max_wait has elapsed (2 s / 25 ms in the
\* code; the model only needs "some polls, then the deadline").
PollBudget == 1

\* Lines background jobs write to the terminal of one Term.
MaxNoise == 1

Terms == 1..NTerms
Streams == {"stdout", "stderr"}

\* ------------------------------------------------------- commands, texts
\* The command lines a caller submits, by what the shell does with them:
\* exit status, text written to stdout, text written to stderr.
\*   1: tty                     (Term.__init__)
\*   2: a command printing a line and an empty line, status 0
\*   3: a command failing with a message on stderr
\*   4: a command whose own line holds the marker, a space, digits and a
\*      colon (`: ThisIsThePrompt 7:`); echo is those digits, 0 for none
CmdTable ==
  << [status |-> 0, stdout |-> <<"p", "\n">>,      stderr |-> <<>>,          echo |-> 0],
     [status |-> 0, stdout |-> <<"a", "\n", "\n">>, stderr |-> <<>>,          echo |-> 0],
     [status |-> 1, stdout |-> <<>>,               stderr |-> <<"e", "\n">>, echo |-> 0],
     [status |-> 0, stdout |-> <<>>,               stderr |-> <<>>,          echo |-> 7] >>

TtyCmd == 1
UserCmds == {2, 3}
MarkerCmds == {4}

Output(c, s) == IF s = "stdout" THEN CmdTable[c].stdout ELSE CmdTable[c].stderr

\* What a background job writes to the terminal: a line of its own text.
BgText == <<"z", "\n">>

\* str.rstrip("\n"): every trailing newline is removed.
RECURSIVE rstrip(_)
rstrip(s) ==
  IF s # <<>> /\ s[Len(s)] = "\n" THEN rstrip(SubSeq(s, 1, Len(s) - 1)) ELSE s

\* ------------------------------------------------------------------ state
VARIABLES
  n,        \* TermNameProvider.n
  name,     \* name[t]: the number in Term.name ("term<n>"), 0 before creation
  pc,       \* where the driver of Term t stands
  ncalls,   \* driver operations the test body has asked for so far
  cmds,     \* cmds[t]: the calls of run on t, in order: arguments and line sent
  cur,      \* the run in progress on t: exit code read, polls slept
  outcome,  \* how the last finished run on t ended
  sh,       \* the child shell of t: starting, ready, running, dead
  shcur,    \* index in cmds[t] of the command the shell is executing, or 0
  ended,    \* number of commands the shell of t has run to their end
  inq,      \* command lines written to the child and not yet read by the shell
  pty,      \* what the child wrote to its terminal and the driver has not read
  buf,      \* pexpect's buffer: what expect read beyond its last match
  tee,      \* the redirection pipelines (tee ... && mv ...) of each command
  slot,     \* the capture files of the sandbox root, by name and stream
  bg,       \* bg[t]: background output written to the terminal of t, by when
  env,      \* SSH_AUTH_SOCK in the environment of the test process (0: unset)
  childenv, \* childenv[t]: SSH_AUTH_SOCK the child of t was spawned with
  via,      \* via[t]: how Term t was made (fixture or factory) and its login_sock
  scope,    \* the test: its body, and what teardown has done for each Term
  files,    \* names that exist in the sandbox root (mkstemp files, tmux sockets)
  servers,  \* names a tmux server is bound to
  tmux_sockets, \* Sandbox._tmux_sockets
  issued,   \* the paths make_unique_file / reserve_tmux_socket have returned
  sbx,      \* the scope that owns the Sandbox, and the shutdown loop in it
  shutlog,  \* the calls of _shutdown_tmux_socket so far
  rc,       \* the rc file set-socklink-section rewrites
  rcruns,   \* the bodies set-socklink-section was given for it, in order
  tmux,     \* the tmux server of the test: clients, server link, pending hooks
  conc,     \* one call of _run_with_bounded_concurrency: semaphore and tasks
  mgr,      \* srht.py main and its JobManager: the jobs and the polling loop
  ex,       \* one prompt on its way through pexpect: bytes unread, buffer, matches
  prov,     \* the TermNameProviders of the tests: counter and names returned
  rel       \* release.py: the workflow runs queried, and the wait_ci loop

\* The state around the Term machine: the process environment and the test
\* scope; the socket registry of the Sandbox; the rc file.
evars == <<env, childenv, via, scope>>
svars == <<files, servers, tmux_sockets, issued, sbx, shutlog>>
rvars == <<rc, rcruns>>
yvars == <<tmux, conc, mgr, ex>>
zvars == <<prov, rel>>
xvars == <<bg, evars, svars, rvars, yvars, zvars>>
tvars == <<n, name, pc, ncalls, cmds, cur, outcome, sh, shcur, ended, inq, pty, buf, tee, slot>>
vars == <<tvars, xvars>>

\* Runs on one Term: the one of __init__ and those of the test body.
MaxK == MaxCalls - 1
Names == 1..NTerms

NoFile == [owner |-> <<0, 0>>, len |-> 0, junk |-> FALSE]
NoTee == [ph |-> "none", loc |-> "-", wr |-> 0]
NoOutcome == [k |-> 0, res |-> "none", at |-> "none", code |-> 0, text |-> <<>>, src |-> NoFile]
NoVia == [by |-> "none", login_sock |-> FALSE]
NoCur == [code |-> 0, of |-> -1, polls |-> 0, typ |-> "none", before |-> <<>>]

\* The text a file holds: what its writer has written so far.
FileText(f, s) == SubSeq(Output(cmds[f.owner[1]][f.owner[2]].c, s), 1, f.len)


\* -------------------------------------------------------------- helpers
\* A provider whose names do not depend on how many it has handed out.
make_name_fixed == IF n >= 1 THEN 1 ELSE n

\* TermNameProvider.make_name: the name it hands out next.
make_name == n

\* Capture paths built without the name of the Term.
capture_name_shared(t) == 1

\* The <name> of the capture paths <root>/<name>-stdout.txt and
\* <root>/<name>-stderr.txt that run builds for Term t.
capture_name(t) == name[t]

\* A set-up without the delenv: a Term without a login socket leaves the
\* variable as the creation of an earlier Term set it.
login_env_keeps(login_sock, nm) == IF login_sock THEN nm ELSE env

\* _setup_login_auth_sock / delenv: SSH_AUTH_SOCK of the test process after
\* the set-up of a Term named nm: its login socket <root>/home/<nm>-auth_sock
\* (written as nm), or unset (0).
login_env(login_sock, nm) == IF login_sock THEN nm ELSE 0

\* A child spawned before the environment was set up for it.
spawn_env_stale(login_sock, nm) == env

\* pexpect.spawn after that set-up: what the child finds in SSH_AUTH_SOCK.
spawn_env(login_sock, nm) == login_env(login_sock, nm)

\* A rewrite that redirects stderr whatever the stderr argument is.
rewrite_always_stderr(so, se) == {s \in Streams : s = "stderr" \/ (s = "stdout" /\ so)}

\* The redirections run appends to the command line.
rewrite(so, se) == {s \in Streams : (s = "stderr" /\ se) \/ (s = "stdout" /\ so)}

\* The pattern of expect, PROMPT_MAGIC + r" (\d+):", is searched for anywhere
\* in what the child wrote: it matches a prompt line, and it matches a line
\* that holds those characters in its middle.
IsPrompt(x) == x.typ \in {"prompt", "echo"}
HasPrompt(q) == \E i \in 1..Len(q) : IsPrompt(q[i])
FirstPrompt(q) ==
  CHOOSE i \in 1..Len(q) : IsPrompt(q[i]) /\ \A j \in 1..(i - 1) : ~IsPrompt(q[j])

\* The prompt line PS1 / PROMPT prints: the marker and the status of the
\* command the shell has just finished (`of` records which, 0 at start-up).
PromptLine(code, of) == [typ |-> "prompt", code |-> code, of |-> of]

\* The terminal's echo of the command line of run k, when that line holds
\* the marker and digits, and a line of output of a background job.
EchoLine(code, k) == [typ |-> "echo", code |-> code, of |-> k]
BgLine(k) == [typ |-> "bg", code |-> 0, of |-> k]

\* The <name> in the paths the pipeline of command k of Term t was given.
TeeName(t, k) == cmds[t][k].nm

\* Path.unlink(missing_ok=True) of both final capture paths of name nm: a
\* writer that still holds such a file keeps writing to the unlinked inode.
UnlinkedSlot(nm) ==
  [slot EXCEPT ![nm] = [s \in Streams |-> [slot[nm][s] EXCEPT !.fin = NoFile]]]
UnlinkedTee(nm) ==
  [t \in Terms |-> [k \in 1..MaxK |-> [s \in Streams |->
     IF tee[t][k][s].loc = "fin" /\ TeeName(t, k) = nm
     THEN [tee[t][k][s] EXCEPT !.loc = "unlinked"] ELSE tee[t][k][s]]]]

\* run, lines 177-187: the final capture files are removed and the command
\* line is rewritten; the drain comes next.
\* A run that leaves the capture files of earlier runs in place.
BeginRun_keeps_files(t, c, so, se) ==
  /\ cmds' = [cmds EXCEPT ![t] = Append(@,
        [c |-> c, stdout |-> so, stderr |-> se, nm |-> capture_name(t),
         redir |-> rewrite(so, se)])]
  /\ UNCHANGED <<slot, tee>>
  /\ cur' = [cur EXCEPT ![t] = NoCur]
  /\ pc' = [pc EXCEPT ![t] = "drain"]

\* run, lines 177-189: the paths, both unlinks, the rewritten line; then the
\* drain begins.
BeginRun(t, c, so, se) ==
  /\ cmds' = [cmds EXCEPT ![t] = Append(@,
        [c |-> c, stdout |-> so, stderr |-> se, nm |-> capture_name(t),
         redir |-> rewrite(so, se)])]
  /\ slot' = UnlinkedSlot(capture_name(t))
  /\ tee' = UnlinkedTee(capture_name(t))
  /\ cur' = [cur EXCEPT ![t] = NoCur]
  /\ pc' = [pc EXCEPT ![t] = "drain"]

\* How a run ends. An exception other than TermCommandError ends the test
\* body; so does any exception out of Term.__init__.
EndRun(t, o) ==
  /\ outcome' = [outcome EXCEPT ![t] = o]
  /\ pc' = [pc EXCEPT ![t] =
       IF o.res = "return" \/ (o.res = "TermCommandError" /\ o.k > 1)
       THEN "idle" ELSE "failed"]

Result(t, res, code, text, src) ==
  [k |-> Len(cmds[t]), res |-> res, at |-> pc[t], code |-> code, text |-> text, src |-> src]

\* -------------------------------------------------------- Term.__init__
\* plugin.py term / make_term: a name from the provider, then Term(name,
\* sandbox): the shell is spawned and the first drain begins.
\* __init__, lines 152-158: SSH_AUTH_SOCK of the test process is set to the
\* Term's own login socket, or deleted; the child inherits the environment
\* as it stands when it is spawned.
CreateTerm(t, login_sock, by) ==
  /\ pc[t] = "none"
  /\ \A u \in Terms : u < t => pc[u] # "none"
  /\ scope.st = "body"
  /\ ncalls + 2 <= MaxCalls
  /\ ncalls' = ncalls + 2
  /\ name' = [name EXCEPT ![t] = make_name]
  /\ n' = n + 1
  /\ env' = login_env(login_sock, make_name)
  /\ childenv' = [childenv EXCEPT ![t] = spawn_env(login_sock, make_name)]
  /\ via' = [via EXCEPT ![t] = [by |-> by, login_sock |-> login_sock]]
  /\ sh' = [sh EXCEPT ![t] = "starting"]
  /\ pc' = [pc EXCEPT ![t] = "init_drain"]
  /\ UNCHANGED <<cmds, cur, outcome, shcur, ended, inq, pty, buf, tee, slot>>
  /\ UNCHANGED <<bg, scope, svars, rvars, yvars, zvars>>

\* _drain_read_buffer: read_nonblocking returned bytes; they are dropped.
DrainRead(t) ==
  /\ pc[t] \in {"init_drain", "drain"}
  /\ pty[t] # <<>>
  /\ pty' = [pty EXCEPT ![t] = <<>>]
  /\ UNCHANGED <<n, name, pc, ncalls, cmds, cur, outcome, sh, shcur, ended, inq, buf, tee, slot, xvars>>

\* The drain of __init__ times out; __init__ goes on to run("tty", stdout=True).
InitDrainTimeout(t) ==
  /\ pc[t] = "init_drain"
  /\ pty[t] = <<>>
  /\ sh[t] # "dead"
  /\ BeginRun(t, TtyCmd, TRUE, TRUE)
  /\ UNCHANGED <<n, name, ncalls, outcome, sh, shcur, ended, inq, pty, buf, xvars>>

\* ------------------------------------------------------------- Term.run
\* The test body calls run(command, stdout, stderr) on an idle Term.
RunCall(t, c, so, se) ==
  /\ pc[t] = "idle"
  /\ scope.st = "body"
  /\ ncalls < MaxCalls
  /\ ncalls' = ncalls + 1
  /\ BeginRun(t, c, so, se)
  /\ UNCHANGED <<n, name, outcome, sh, shcur, ended, inq, pty, buf, xvars>>

\* A drain that lets pexpect.TIMEOUT out to the caller of run.
DrainTimeout_raises(t) ==
  /\ pc[t] = "drain"
  /\ pty[t] = <<>>
  /\ sh[t] # "dead"
  /\ EndRun(t, Result(t, "TIMEOUT", 0, <<>>, NoFile))
  /\ UNCHANGED <<n, name, ncalls, cmds, cur, sh, shcur, ended, inq, pty, buf, tee, slot, xvars>>

\* The drain of run times out (pexpect.TIMEOUT, caught); the command line is
\* written to the child, whose terminal echoes it, and the wait for the
\* prompt begins.
DrainTimeout(t) ==
  /\ pc[t] = "drain"
  /\ pty[t] = <<>>
  /\ sh[t] # "dead"
  /\ inq' = [inq EXCEPT ![t] = Append(@, Len(cmds[t]))]
  /\ LET k == Len(cmds[t])
         digits == CmdTable[cmds[t][k].c].echo
     IN pty' = IF digits # 0 THEN [pty EXCEPT ![t] = Append(@, EchoLine(digits, k))]
               ELSE pty
  /\ pc' = [pc EXCEPT ![t] = "wait"]
  /\ UNCHANGED <<n, name, ncalls, cmds, cur, outcome, sh, shcur, ended, buf, tee, slot, xvars>>

\* read_nonblocking on a dead child with nothing to read raises pexpect.EOF,
\* which _drain_read_buffer does not catch.
DrainEOF(t) ==
  /\ pc[t] \in {"init_drain", "drain"}
  /\ pty[t] = <<>>
  /\ sh[t] = "dead"
  /\ EndRun(t, Result(t, "EOF", 0, <<>>, NoFile))
  /\ UNCHANGED <<n, name, ncalls, cmds, cur, sh, shcur, ended, inq, pty, buf, tee, slot, xvars>>

\* _wait_for_prompt: expect searches its buffer, then what it reads from the
\* child, for the marker; the first match gives the exit code. Then run,
\* lines 195-203.
WaitPrompt(t) ==
  /\ pc[t] = "wait"
  /\ LET inbuf == HasPrompt(buf[t])
         all == IF inbuf THEN buf[t] ELSE buf[t] \o pty[t]
     IN /\ HasPrompt(all)
        /\ LET i == FirstPrompt(all)
               code == all[i].code
               e == cmds[t][Len(cmds[t])]
           IN /\ buf' = [buf EXCEPT ![t] = SubSeq(all, i + 1, Len(all))]
              /\ pty' = IF inbuf THEN pty ELSE [pty EXCEPT ![t] = <<>>]
              /\ cur' = [cur EXCEPT ![t] =
                    [code |-> code, of |-> all[i].of, polls |-> 0, typ |-> all[i].typ,
                     before |-> SubSeq(all, 1, i - 1)]]
              /\ IF (code # 0 /\ e.stderr) \/ (code = 0 /\ e.stdout)
                 THEN /\ pc' = [pc EXCEPT ![t] = "read"]
                      /\ UNCHANGED outcome
                 ELSE IF code # 0
                 THEN EndRun(t, Result(t, "TermCommandError", code, <<>>, NoFile))
                 ELSE EndRun(t, Result(t, "return", 0, <<>>, NoFile))
  /\ UNCHANGED <<n, name, ncalls, cmds, sh, shcur, ended, inq, tee, slot, xvars>>

\* A wait that takes the end of the child's output for a successful command.
WaitEOF_as_exit0(t) ==
  /\ pc[t] = "wait"
  /\ sh[t] = "dead"
  /\ ~HasPrompt(buf[t] \o pty[t])
  /\ EndRun(t, Result(t, "return", 0, <<>>, NoFile))
  /\ UNCHANGED <<n, name, ncalls, cmds, cur, sh, shcur, ended, inq, pty, buf, tee, slot, xvars>>

\* expect meets the end of the child's output without a match: pexpect.EOF.
WaitEOF(t) ==
  /\ pc[t] = "wait"
  /\ sh[t] = "dead"
  /\ ~HasPrompt(buf[t] \o pty[t])
  /\ EndRun(t, Result(t, "EOF", 0, <<>>, NoFile))
  /\ UNCHANGED <<n, name, ncalls, cmds, cur, sh, shcur, ended, inq, pty, buf, tee, slot, xvars>>

\* expect sees no match within the timeout of the spawn: pexpect.TIMEOUT.
WaitTimeout(t) ==
  /\ pc[t] = "wait"
  /\ sh[t] # "dead"
  /\ ~HasPrompt(buf[t] \o pty[t])
  /\ EndRun(t, Result(t, "TIMEOUT", 0, <<>>, NoFile))
  /\ UNCHANGED <<n, name, ncalls, cmds, cur, sh, shcur, ended, inq, pty, buf, tee, slot, xvars>>

\* The stream _read_output is asked for: stderr after a nonzero exit code,
\* stdout otherwise.
ReadStream(t) == IF cur[t].code # 0 THEN "stderr" ELSE "stdout"

\* The text of the terminal output expect passed over before its match.
TermText(items) ==
  IF \E i \in 1..Len(items) : items[i].typ = "bg" THEN BgText ELSE <<>>

\* A run that captures with pexpect: its text is what the terminal showed
\* before the prompt (child.before), not what the redirection wrote.
ReadOutput_pexpect(t) ==
  /\ pc[t] = "read"
  /\ EndRun(t, Result(t,
         IF cur[t].code # 0 THEN "TermCommandError" ELSE "return",
         cur[t].code, rstrip(TermText(cur[t].before)), NoFile))
  /\ UNCHANGED <<n, name, ncalls, cmds, cur, sh, shcur, ended, inq, pty, buf, tee, slot, xvars>>

\* _read_output: path.read_text() succeeds; run strips the newlines and
\* raises TermCommandError or returns the text.
ReadOutput(t) ==
  /\ pc[t] = "read"
  /\ LET s == ReadStream(t)
         f == slot[capture_name(t)][s].fin
     IN /\ f # NoFile
        /\ EndRun(t, Result(t,
               IF cur[t].code # 0 THEN "TermCommandError" ELSE "return",
               cur[t].code, rstrip(FileText(f, s)), f))
  /\ UNCHANGED <<n, name, ncalls, cmds, cur, sh, shcur, ended, inq, pty, buf, tee, slot, xvars>>

\* _read_output: FileNotFoundError before max_wait has elapsed; sleep.
ReadSleep(t) ==
  /\ pc[t] = "read"
  /\ slot[capture_name(t)][ReadStream(t)].fin = NoFile
  /\ cur[t].polls < PollBudget
  /\ cur' = [cur EXCEPT ![t].polls = @ + 1]
  /\ UNCHANGED <<n, name, pc, ncalls, cmds, outcome, sh, shcur, ended, inq, pty, buf, tee, slot, xvars>>

\* A poll that gives up silently: the missing capture is read as empty text.
ReadGiveUp_empty(t) ==
  /\ pc[t] = "read"
  /\ slot[capture_name(t)][ReadStream(t)].fin = NoFile
  /\ cur[t].polls = PollBudget
  /\ EndRun(t, Result(t, IF cur[t].code # 0 THEN "TermCommandError" ELSE "return",
                       cur[t].code, <<>>, NoFile))
  /\ UNCHANGED <<n, name, ncalls, cmds, cur, sh, shcur, ended, inq, pty, buf, tee, slot, xvars>>

\* _read_output: FileNotFoundError after max_wait; it is raised again.
ReadGiveUp(t) ==
  /\ pc[t] = "read"
  /\ slot[capture_name(t)][ReadStream(t)].fin = NoFile
  /\ cur[t].polls = PollBudget
  /\ EndRun(t, Result(t, "FileNotFoundError", cur[t].code, <<>>, NoFile))
  /\ UNCHANGED <<n, name, ncalls, cmds, cur, sh, shcur, ended, inq, pty, buf, tee, slot, xvars>>


\* ------------------------------------------------------- the child shell
\* The shell has read its startup file and prints its first prompt: the
\* marker with status 0.
ShellStart(t) ==
  /\ sh[t] = "starting"
  /\ sh' = [sh EXCEPT ![t] = "ready"]
  /\ pty' = [pty EXCEPT ![t] = Append(@, PromptLine(0, 0))]
  /\ UNCHANGED <<n, name, pc, ncalls, cmds, cur, outcome, shcur, ended, inq, buf, tee, slot, xvars>>

\* `tee '<path>.tmp'` of a redirection opens its file: created, or truncated
\* when the path exists (the writers that hold that file then share it).
OpenedSlot(t, k) ==
  [slot EXCEPT ![TeeName(t, k)] = [s \in Streams |->
     IF s \in cmds[t][k].redir
     THEN [slot[TeeName(t, k)][s] EXCEPT
             !.tmp = [owner |-> <<t, k>>, len |-> 0, junk |-> FALSE]]
     ELSE slot[TeeName(t, k)][s]]]

\* The shell reads the next command line and starts it, with the process
\* substitutions the line asks for.
ShellExec(t) ==
  /\ sh[t] = "ready"
  /\ inq[t] # <<>>
  /\ LET k == Head(inq[t])
     IN /\ shcur' = [shcur EXCEPT ![t] = k]
        /\ tee' = [tee EXCEPT ![t][k] = [s \in Streams |->
              IF s \in cmds[t][k].redir
              THEN [ph |-> "open", loc |-> "tmp", wr |-> 0] ELSE NoTee]]
        /\ slot' = OpenedSlot(t, k)
  /\ inq' = [inq EXCEPT ![t] = Tail(@)]
  /\ sh' = [sh EXCEPT ![t] = "running"]
  /\ UNCHANGED <<n, name, pc, ncalls, cmds, cur, outcome, ended, pty, buf, xvars>>

\* The command ends; the shell prints the prompt with its status. It does
\* not wait for the process substitutions.
ShellFinish(t) ==
  /\ sh[t] = "running"
  /\ sh' = [sh EXCEPT ![t] = "ready"]
  /\ pty' = [pty EXCEPT ![t] =
        Append(@, PromptLine(CmdTable[cmds[t][shcur[t]].c].status, shcur[t]))]
  /\ shcur' = [shcur EXCEPT ![t] = 0]
  /\ ended' = [ended EXCEPT ![t] = @ + 1]
  /\ UNCHANGED <<n, name, pc, ncalls, cmds, cur, outcome, inq, buf, tee, slot, xvars>>

\* The shell process ends (killed, or it exits): no further output.
ShellDie(t) ==
  /\ sh[t] \in {"starting", "ready", "running"}
  /\ sh' = [sh EXCEPT ![t] = "dead"]
  /\ shcur' = [shcur EXCEPT ![t] = 0]
  /\ inq' = [inq EXCEPT ![t] = <<>>]
  /\ UNCHANGED <<n, name, pc, ncalls, cmds, cur, outcome, ended, pty, buf, tee, slot, xvars>>

\* The end of the line that starts after the first wr characters of text.
RECURSIVE LineEnd(_, _)
LineEnd(text, wr) ==
  IF wr + 1 >= Len(text) \/ text[wr + 1] = "\n" THEN wr + 1 ELSE LineEnd(text, wr + 1)

\* tee copies the next line of the command's output into the file it holds.
\* A file truncated by a later writer no longer holds its writer's text.
TeeWrite(t, k, s) ==
  /\ tee[t][k][s].ph = "open"
  /\ tee[t][k][s].wr < Len(Output(cmds[t][k].c, s))
  /\ tee' = [tee EXCEPT ![t][k][s].wr = LineEnd(Output(cmds[t][k].c, s), @)]
  /\ LET loc == tee[t][k][s].loc
         nm == TeeName(t, k)
         f == IF loc = "tmp" THEN slot[nm][s].tmp ELSE slot[nm][s].fin
         g == IF f.owner = <<t, k>>
              THEN [f EXCEPT !.len = LineEnd(Output(cmds[t][k].c, s), @)]
              ELSE [f EXCEPT !.junk = TRUE]
     IN slot' = IF loc = "tmp" THEN [slot EXCEPT ![nm][s].tmp = g]
                ELSE IF loc = "fin" THEN [slot EXCEPT ![nm][s].fin = g]
                ELSE slot
  /\ UNCHANGED <<n, name, pc, ncalls, cmds, cur, outcome, sh, shcur, ended, inq, pty, buf, xvars>>

\* tee has copied everything and sees the end of its input (the command has
\* ended); then `mv '<path>.tmp' '<path>'` renames whatever file stands at
\* the .tmp path, or fails when there is none.
TeeExitMv(t, k, s) ==
  /\ tee[t][k][s].ph = "open"
  /\ tee[t][k][s].wr = Len(Output(cmds[t][k].c, s))
  /\ shcur[t] # k
  /\ LET nm == TeeName(t, k)
         moved == slot[nm][s].tmp # NoFile
     IN /\ slot' = IF moved
                   THEN [slot EXCEPT ![nm][s] = [tmp |-> NoFile, fin |-> slot[nm][s].tmp]]
                   ELSE slot
        /\ tee' = [u \in Terms |-> [j \in 1..MaxK |-> [r \in Streams |->
              IF u = t /\ j = k /\ r = s THEN NoTee
              ELSE IF moved /\ r = s /\ tee[u][j][r].loc = "tmp" /\ TeeName(u, j) = nm
              THEN [tee[u][j][r] EXCEPT !.loc = "fin"]
              ELSE IF moved /\ r = s /\ tee[u][j][r].loc = "fin" /\ TeeName(u, j) = nm
              THEN [tee[u][j][r] EXCEPT !.loc = "unlinked"]
              ELSE tee[u][j][r]]]]
  /\ UNCHANGED <<n, name, pc, ncalls, cmds, cur, outcome, sh, shcur, ended, inq, pty, buf, xvars>>


\* A background job of the shell (started by an earlier command) writes a
\* line to the terminal; bg records after which run, when the driver of t is
\* between two calls of run (0 otherwise).
BackgroundWrite(t) ==
  /\ sh[t] \in {"ready", "running"}
  /\ ended[t] >= 1
  /\ Len(bg[t]) < MaxNoise
  /\ pty' = [pty EXCEPT ![t] = Append(@, BgLine(Len(cmds[t])))]
  /\ bg' = [bg EXCEPT ![t] = Append(@, IF pc[t] = "idle" THEN Len(cmds[t]) ELSE 0)]
  /\ UNCHANGED <<n, name, pc, ncalls, cmds, cur, outcome, sh, shcur, ended, inq, buf, tee, slot>>
  /\ UNCHANGED <<evars, svars, rvars, yvars, zvars>>

\* A background job that never stops writing (`yes &`, a loop that echoes):
\* whenever the driver has read all there was, there is a line more.
ChattyWrite(t) ==
  /\ sh[t] \in {"ready", "running"}
  /\ ended[t] >= 1
  /\ pty[t] = <<>>
  /\ pty' = [pty EXCEPT ![t] = Append(@, BgLine(0))]
  /\ UNCHANGED <<n, name, pc, ncalls, cmds, cur, outcome, sh, shcur, ended, inq, buf, tee, slot>>
  /\ UNCHANGED xvars

\* ------------------------------------------------- the scope of the Terms
\* Term.__init__ has returned for t: the Term exists for the test.
Constructed(t) ==
  \/ outcome[t].k > 1
  \/ outcome[t].k = 1 /\ outcome[t].res = "return"
  \/ Len(cmds[t]) > 1

\* The test is a single thread: no operation of the driver is in progress.
DriverIdle == \A t \in Terms : pc[t] \in {"none", "idle", "failed"}

\* What teardown does for Term t. The term fixture leaves `with Term(...)`,
\* and Term.__exit__ does child.close(force=True). The finalizer make_term
\* registered calls term.close(): Term has no such attribute, the call
\* raises AttributeError and the child is left as it is. Nothing runs for a
\* Term whose __init__ raised: neither the `with` block nor addfinalizer
\* was reached.
TermTeardown(t) ==
  IF pc[t] = "none" THEN "none"
  ELSE IF ~Constructed(t) THEN "skipped"
  ELSE IF via[t].by = "term" THEN "closed" ELSE "AttributeError"

\* The test body ends, by returning or by raising, between two operations
\* of the driver, and pytest tears the fixtures of the test down, each
\* whatever the others did.
Teardown ==
  /\ scope.st = "body"
  /\ DriverIdle
  /\ scope' = [st |-> "done", td |-> [t \in Terms |-> TermTeardown(t)]]
  /\ sh' = [t \in Terms |-> IF TermTeardown(t) = "closed" THEN "dead" ELSE sh[t]]
  /\ shcur' = [t \in Terms |-> IF TermTeardown(t) = "closed" THEN 0 ELSE shcur[t]]
  /\ inq' = [t \in Terms |-> IF TermTeardown(t) = "closed" THEN <<>> ELSE inq[t]]
  /\ UNCHANGED <<n, name, pc, ncalls, cmds, cur, outcome, ended, pty, buf, tee, slot>>
  /\ UNCHANGED <<bg, env, childenv, via, svars, rvars, yvars, zvars>>

\* What the test body does with its Terms: it makes the Term of the term
\* fixture or a Term of the make_term factory, and it runs a command.
ScopeCreate(t, login_sock, by) == DriverIdle /\ CreateTerm(t, login_sock, by)
ScopeRun(t) == DriverIdle /\ Len(cmds[t]) < 2 /\ RunCall(t, 3, FALSE, TRUE)

\* ------------------------------------------------- Sandbox: socket registry
\* Names mkstemp can draw for a prefix in the sandbox root: it creates, with
\* O_EXCL, a file whose name does not exist at that moment.
NPaths == 3
Paths == 1..NPaths
\* Calls of make_unique_file / reserve_tmux_socket in one test.
MaxIssued == 3
\* Calls of shutdown_all_tmux_sockets the test body makes itself.
MaxBodyShutdowns == 1

InitSandbox ==
  /\ files = {}
  /\ servers = {}
  /\ tmux_sockets = <<>>
  /\ issued = <<>>
  /\ sbx = [pc |-> "body", i |-> 0, back |-> "body", ended |-> "no", calls |-> 0,
            resv |-> 0, todo |-> 0, again |-> FALSE, raised |-> FALSE]
  /\ shutlog = <<>>

\* make_unique_file: tempfile.mkstemp creates a new file; its path is returned.
make_unique_file(p) ==
  /\ sbx.pc = "body"
  /\ Len(issued) < MaxIssued
  /\ p \notin files
  /\ files' = files \cup {p}
  /\ issued' = Append(issued, [path |-> p, kind |-> "file"])
  /\ UNCHANGED <<servers, tmux_sockets, sbx, shutlog>>
  /\ UNCHANGED <<tvars, bg, evars, rvars, yvars, zvars>>

\* reserve_tmux_socket: the file make_unique_file created is unlinked at
\* once, and its path is appended to the registry and returned.
reserve_tmux_socket(p) ==
  /\ sbx.pc = "body"
  /\ Len(issued) < MaxIssued
  /\ p \notin files
  /\ tmux_sockets' = Append(tmux_sockets, p)
  /\ issued' = Append(issued, [path |-> p, kind |-> "socket"])
  /\ sbx' = [sbx EXCEPT !.resv = @ + 1]
  /\ UNCHANGED <<files, servers, shutlog>>
  /\ UNCHANGED <<tvars, bg, evars, rvars, yvars, zvars>>

\* The test starts a tmux server on a socket it reserved (`tmux -S <path>`):
\* the server binds the path.
ServerStart(p) ==
  /\ sbx.pc = "body"
  /\ \E i \in 1..Len(tmux_sockets) : tmux_sockets[i] = p
  /\ p \notin files
  /\ files' = files \cup {p}
  /\ servers' = servers \cup {p}
  /\ UNCHANGED <<tmux_sockets, issued, sbx, shutlog>>
  /\ UNCHANGED <<tvars, bg, evars, rvars, yvars, zvars>>

\* A server ends by itself (its last session closed, or it was killed); a
\* server that is killed leaves its socket file behind.
ServerGone(p, stale) ==
  /\ p \in servers
  /\ servers' = servers \ {p}
  /\ files' = IF stale THEN files ELSE files \ {p}
  /\ UNCHANGED <<tmux_sockets, issued, sbx, shutlog>>
  /\ UNCHANGED <<tvars, bg, evars, rvars, yvars, zvars>>

\* shutdown_all_tmux_sockets is entered: the loop over the registry begins.
BeginShutdownAll(back, how) ==
  sbx' = [sbx EXCEPT !.pc = "shutdown", !.i = 1, !.back = back, !.ended = how,
                     !.calls = @ + 1, !.todo = Len(tmux_sockets),
                     !.again = (sbx.calls >= 1 /\ sbx.resv = 0)]

\* The test body calls shutdown_all_tmux_sockets itself.
BodyShutdownAll ==
  /\ sbx.pc = "body"
  /\ sbx.calls < MaxBodyShutdowns
  /\ BeginShutdownAll("body", "no")
  /\ UNCHANGED <<files, servers, tmux_sockets, issued, shutlog>>
  /\ UNCHANGED <<tvars, bg, evars, rvars, yvars, zvars>>

\* An __exit__ that releases the sockets only when the body raised nothing.
SandboxExit_on_success(how) ==
  /\ sbx.pc = "body"
  /\ IF how = "return" THEN BeginShutdownAll("exit", how)
     ELSE sbx' = [sbx EXCEPT !.pc = "done", !.ended = how]
  /\ UNCHANGED <<files, servers, tmux_sockets, issued, shutlog>>
  /\ UNCHANGED <<tvars, bg, evars, rvars, yvars, zvars>>

\* The scope that owns the Sandbox ends: the test body returns (at its end
\* or early) or raises, the sandbox fixture leaves its `with` block and
\* Sandbox.__exit__ calls shutdown_all_tmux_sockets.
SandboxExit(how) ==
  /\ sbx.pc = "body"
  /\ BeginShutdownAll("exit", how)
  /\ UNCHANGED <<files, servers, tmux_sockets, issued, shutlog>>
  /\ UNCHANGED <<tvars, bg, evars, rvars, yvars, zvars>>

\* What `tmux -S <socket> kill-server` can do: with a server behind the
\* socket it ends the server, which removes the socket, or it fails; without
\* one it fails. check=True turns a failure into CalledProcessError.
KillServer(sock) ==
  IF sock \in servers THEN {"killed", "CalledProcessError"} ELSE {"CalledProcessError"}

\* A loop in which CalledProcessError is not caught: it ends the call.
shutdown_tmux_socket_raising(res) ==
  /\ sbx.pc = "shutdown"
  /\ sbx.i <= Len(tmux_sockets)
  /\ LET sock == tmux_sockets[sbx.i]
     IN /\ res \in (IF sock \in files THEN KillServer(sock) ELSE {"absent"})
        /\ shutlog' = Append(shutlog, [call |-> sbx.calls, sock |-> sock, res |-> res])
        /\ servers' = IF res = "killed" THEN servers \ {sock} ELSE servers
        /\ files' = IF res = "killed" THEN files \ {sock} ELSE files
        /\ sbx' = IF res = "CalledProcessError"
                  THEN [sbx EXCEPT !.pc = IF sbx.back = "exit" THEN "done" ELSE "body",
                                   !.raised = TRUE]
                  ELSE [sbx EXCEPT !.i = @ + 1]
  /\ UNCHANGED <<tmux_sockets, issued>>
  /\ UNCHANGED <<tvars, bg, evars, rvars, yvars, zvars>>

\* One turn of the loop: _shutdown_tmux_socket(socket). Nothing is run for a
\* socket that does not exist; otherwise kill-server is run and its
\* CalledProcessError is swallowed.
shutdown_tmux_socket(res) ==
  /\ sbx.pc = "shutdown"
  /\ sbx.i <= Len(tmux_sockets)
  /\ LET sock == tmux_sockets[sbx.i]
     IN /\ res \in (IF sock \in files THEN KillServer(sock) ELSE {"absent"})
        /\ shutlog' = Append(shutlog, [call |-> sbx.calls, sock |-> sock, res |-> res])
        /\ servers' = IF res = "killed" THEN servers \ {sock} ELSE servers
        /\ files' = IF res = "killed" THEN files \ {sock} ELSE files
  /\ sbx' = [sbx EXCEPT !.i = @ + 1]
  /\ UNCHANGED <<tmux_sockets, issued>>
  /\ UNCHANGED <<tvars, bg, evars, rvars, yvars, zvars>>

\* A call that leaves the registry as it found it.
EndShutdownAll_keeps ==
  /\ sbx.pc = "shutdown"
  /\ sbx.i > Len(tmux_sockets)
  /\ sbx' = [sbx EXCEPT !.pc = IF sbx.back = "exit" THEN "done" ELSE "body", !.resv = 0]
  /\ UNCHANGED <<files, servers, tmux_sockets, issued, shutlog>>
  /\ UNCHANGED <<tvars, bg, evars, rvars, yvars, zvars>>

\* The loop is over: self._tmux_sockets = [], and the call returns.
EndShutdownAll ==
  /\ sbx.pc = "shutdown"
  /\ sbx.i > Len(tmux_sockets)
  /\ tmux_sockets' = <<>>
  /\ sbx' = [sbx EXCEPT !.pc = IF sbx.back = "exit" THEN "done" ELSE "body", !.resv = 0]
  /\ UNCHANGED <<files, servers, issued, shutlog>>
  /\ UNCHANGED <<tvars, bg, evars, rvars, yvars, zvars>>

SandboxNext ==
  \/ \E p \in Paths : make_unique_file(p)
  \/ \E p \in Paths : reserve_tmux_socket(p)
  \/ \E p \in Paths : ServerStart(p)
  \/ \E p \in Paths, stale \in BOOLEAN : ServerGone(p, stale)
  \/ BodyShutdownAll
  \/ \E how \in {"return", "raise"} : SandboxExit(how)
  \/ \E res \in {"absent", "killed", "CalledProcessError"} : shutdown_tmux_socket(res)
  \/ EndShutdownAll

\* ------------------------------------------------------------ the rc file
\* socklink.sh set-socklink-section FILE: reads the body of the section from
\* stdin and rewrites FILE.  A text is a sequence of characters; the text of
\* a marker line is one character of the model.
MaxRuns == 2

BEGIN == "### SOCKLINK INSTALLATION BEGIN"

END == "### SOCKLINK INSTALLATION END"

LF == "\n"

NoRc == [exists |-> FALSE, text |-> <<>>]

\* test_unit.py: the bodies the tests pass on stdin, every line ended by LF.
Bodies == { <<"foo", LF, "bar", LF>>, <<"baz", LF>>, <<>> }

\* test_unit.py: the files the tests start from: no section (empty, with
\* and without a final LF), or one section with text before and after it.
PlainTexts == { <<>>, <<"a">>, <<"a", LF>>, <<"a", LF, "b">>, <<"a", LF, "b", LF>> }

SectionTexts ==
  { pre \o <<BEGIN, LF>> \o mid \o <<END, LF>> \o post :
      pre \in { <<>>, <<"a", LF>>, <<"a", LF, LF>> },
      mid \in { <<>>, <<"x", LF>> },
      post \in { <<>>, <<"b", LF>>, <<"b">> } }

RcTexts == PlainTexts \cup SectionTexts

\* The positions of text where a line starts that is exactly the marker m.
MarkerLines(text, m) ==
  { i \in 1..Len(text) :
      /\ text[i] = m
      /\ (i = 1 \/ text[i - 1] = LF)
      /\ (i = Len(text) \/ text[i + 1] = LF) }

Least(S) == CHOOSE i \in S : \A j \in S : i <= j

\* The first section of text: the first BEGIN line and the first END line
\* after it; <<0, 0>> when there is none.
SectionOf(text) ==
  IF MarkerLines(text, BEGIN) = {} THEN <<0, 0>>
  ELSE LET b == Least(MarkerLines(text, BEGIN))
           es == { e \in MarkerLines(text, END) : e > b }
       IN IF es = {} THEN <<0, 0>> ELSE <<b, Least(es)>>

Section(body) == <<BEGIN, LF>> \o body \o <<END, LF>>

\* An append that never completes the last line of the existing content.
append_section_raw(text, body) == text \o <<LF>> \o Section(body)

append_section(text, body) ==
  IF text = <<>> THEN Section(body)
  ELSE text \o (IF text[Len(text)] = LF THEN <<>> ELSE <<LF>>) \o <<LF>> \o Section(body)

\* A replacement that ends the file at the END line.
replace_section_truncating(text, body) ==
  SubSeq(text, 1, SectionOf(text)[1] + 1) \o body \o <<END, LF>>

replace_section(text, body) ==
  LET sec == SectionOf(text)
  IN SubSeq(text, 1, sec[1] + 1) \o body \o SubSeq(text, sec[2], Len(text))

set_section_appending(text, body) == append_section(text, body)

set_section(text, body) ==
  IF SectionOf(text) = <<0, 0>> THEN append_section(text, body)
  ELSE replace_section(text, body)

\* rc_file.write_text(text) / rc_file.touch() of a test, before the first run.
WriteRc(text) ==
  /\ ~rc.exists
  /\ rcruns = <<>>
  /\ rc' = [exists |-> TRUE, text |-> text]
  /\ UNCHANGED <<rcruns, tvars, bg, evars, svars, yvars, zvars>>

\* stub.run("set-socklink-section", rc_file, stdin=body)
set_socklink_section(body) ==
  /\ Len(rcruns) < MaxRuns
  /\ rc' = [exists |-> TRUE, text |-> set_section(rc.text, body)]
  /\ rcruns' = Append(rcruns, [body |-> body, before |-> rc])
  /\ UNCHANGED <<tvars, bg, evars, svars, yvars, zvars>>

InitRc ==
  /\ rc = NoRc
  /\ rcruns = <<>>

RcNext ==
  \/ \E text \in RcTexts : WriteRc(text)
  \/ \E body \in Bodies : set_socklink_section(body)

\* -------------------------------------------------------- the tmux server
\* The tests of test_integration.py after stub.run("setup"): Terms attach to
\* one tmux server, and the hooks socklink.sh installed repoint the server
\* link (the symlink the shells inside tmux have as SSH_AUTH_SOCK).
MaxHooks == 3

\* resolve_symlink(auth_sock) is None: the link names no existing file.
Dangling == -1

\* Term.login_auth_sock of Term t, a path unique to t.
login_auth_sock(t) == t

InitTmux ==
  tmux = [clients |-> {}, login |-> [t \in Terms |-> FALSE], active |-> 0,
          hooks |-> <<>>, link |-> 0, was |-> 0]

\* term.run(f"tmux -S {tmux_sock}") / term.run(f"tmux -S {tmux_sock} attach")
\* on a Term made with make_term(login_sock=login_sock): the Term becomes a
\* client, the attached client, and the hook for it is queued.
TmuxAttach(t, login_sock) ==
  /\ t \notin tmux.clients
  /\ Len(tmux.hooks) < MaxHooks
  /\ tmux' = [tmux EXCEPT !.clients = @ \cup {t}, !.login[t] = login_sock,
                          !.active = t, !.hooks = Append(@, t)]
  /\ UNCHANGED <<tvars, bg, evars, svars, rvars, conc, mgr, ex, zvars>>

\* term.run("tmux detach")
TmuxDetach(t) ==
  /\ t \in tmux.clients
  /\ tmux' = [tmux EXCEPT !.clients = @ \ {t}]
  /\ UNCHANGED <<tvars, bg, evars, svars, rvars, conc, mgr, ex, zvars>>

\* term.run("echo hi") on a client that was not the active one: it becomes
\* the active client and the hook for it is queued.
TmuxActivate(t) ==
  /\ t \in tmux.clients
  /\ tmux.active # t
  /\ Len(tmux.hooks) < MaxHooks
  /\ tmux' = [tmux EXCEPT !.active = t, !.hooks = Append(@, t)]
  /\ UNCHANGED <<tvars, bg, evars, svars, rvars, conc, mgr, ex, zvars>>

\* A hook that leaves the server link as it is for a client that has no
\* login socket.
LinkTarget_keeps(t) == IF tmux.login[t] THEN login_auth_sock(t) ELSE tmux.link

\* The target the hook of client t gives the server link.
LinkTarget(t) == IF tmux.login[t] THEN login_auth_sock(t) ELSE Dangling

\* A hook that sets the server link only when the server has none yet.
HookRun_first_client ==
  /\ tmux.hooks # <<>>
  /\ tmux' = [tmux EXCEPT !.hooks = Tail(@),
                          !.link = IF @ = 0 THEN LinkTarget(Head(tmux.hooks)) ELSE @,
                          !.was = tmux.link]
  /\ UNCHANGED <<tvars, bg, evars, svars, rvars, conc, mgr, ex, zvars>>

\* The oldest queued hook runs, some time after the event that queued it:
\* the server link now points at the login socket of that client.
HookRun ==
  /\ tmux.hooks # <<>>
  /\ tmux' = [tmux EXCEPT !.hooks = Tail(@),
                          !.link = LinkTarget(Head(tmux.hooks)),
                          !.was = tmux.link]
  /\ UNCHANGED <<tvars, bg, evars, svars, rvars, conc, mgr, ex, zvars>>

\* resolve_symlink returns None.
NoTarget == 0

\* resolve_symlink(link): the file the link leads to if that file exists,
\* else None.  The files that exist are the login sockets
\* _setup_login_auth_sock touched, those of the Terms made with a login
\* socket; a link not made yet (0) resolves to no file either.
resolve_symlink(link) ==
  IF \E t \in Terms : tmux.login[t] /\ link = login_auth_sock(t) THEN link ELSE NoTarget

\* delay() has let the hooks settle: none is queued.
Settled == tmux.hooks = <<>>

TmuxNext ==
  \/ \E t \in Terms, login_sock \in BOOLEAN : TmuxAttach(t, login_sock)
  \/ \E t \in Terms : TmuxDetach(t)
  \/ \E t \in Terms : TmuxActivate(t)
  \/ HookRun

\* ------------------------------------------ _run_with_bounded_concurrency
\* srht.py: sem = asyncio.Semaphore(max_concurrency); one runner task per
\* argument, each `async with sem: return await fn(arg)`; asyncio.gather of
\* the runners.  main passes --max-concurrency, any integer the user gives
\* (Semaphore refuses a negative one).
MaxConcurrency == 2

NArgs == 3

Args == 1..NArgs

NoConc ==
  [caller |-> "none", max |-> 0, nargs |-> 0, value |-> 0, waiters |-> <<>>,
   st |-> [a \in Args |-> "none"], calls |-> [a \in Args |-> 0]]

InitConc == conc = NoConc

\* Invocations of fn in progress: runners inside `await fn(arg)`.
InProgress == { a \in Args : conc.st[a] = "running" }

\* The call: the semaphore is made and gather schedules a task per argument.
RunWithBoundedConcurrency(max_concurrency, nargs) ==
  /\ conc.caller = "none"
  /\ conc' = [conc EXCEPT !.caller = "awaiting", !.max = max_concurrency,
                          !.nargs = nargs, !.value = max_concurrency,
                          !.st = [a \in Args |-> IF a <= nargs THEN "created" ELSE "none"]]
  /\ UNCHANGED <<tvars, bg, evars, svars, rvars, tmux, mgr, ex, zvars>>

\* A runner that calls fn without waiting for the semaphore.
RunnerStart_unbounded(a) ==
  /\ conc.st[a] = "created"
  /\ \A b \in 1..(a - 1) : conc.st[b] # "created"
  /\ conc' = [conc EXCEPT !.st[a] = "running", !.calls[a] = @ + 1]
  /\ UNCHANGED <<tvars, bg, evars, svars, rvars, tmux, mgr, ex, zvars>>

\* The event loop runs a new task, in the order gather made them.
\* Semaphore.acquire: taken at once when a permit is free and nobody waits,
\* and then fn(arg) is called; otherwise the runner joins the waiters.
RunnerStart(a) ==
  /\ conc.st[a] = "created"
  /\ \A b \in 1..(a - 1) : conc.st[b] # "created"
  /\ IF conc.value > 0 /\ conc.waiters = <<>>
     THEN conc' = [conc EXCEPT !.value = @ - 1, !.st[a] = "running", !.calls[a] = @ + 1]
     ELSE conc' = [conc EXCEPT !.waiters = Append(@, a), !.st[a] = "waiting"]
  /\ UNCHANGED <<tvars, bg, evars, svars, rvars, tmux, mgr, ex, zvars>>

\* Semaphore.release at the end of `async with sem`: the permit goes to the
\* oldest waiter, or back to the semaphore.
Release(c) ==
  IF c.waiters # <<>>
  THEN [c EXCEPT !.waiters = Tail(@), !.st[Head(c.waiters)] = "woken"]
  ELSE [c EXCEPT !.value = @ + 1]

\* fn(arg) returns; the runner releases and is done.
FnReturn(a) ==
  /\ conc.st[a] = "running"
  /\ conc' = Release([conc EXCEPT !.st[a] = "done"])
  /\ UNCHANGED <<tvars, bg, evars, svars, rvars, tmux, mgr, ex, zvars>>

\* fn(arg) raises; the runner releases, and gather passes the first
\* exception on to the caller without waiting for the other runners.
FnRaise(a) ==
  /\ conc.st[a] = "running"
  /\ conc' = Release([conc EXCEPT !.st[a] = "failed",
                                  !.caller = IF @ = "awaiting" THEN "raised" ELSE @])
  /\ UNCHANGED <<tvars, bg, evars, svars, rvars, tmux, mgr, ex, zvars>>

\* A woken waiter resumes with its permit and calls fn(arg).
RunnerResume(a) ==
  /\ conc.st[a] = "woken"
  /\ conc' = [conc EXCEPT !.st[a] = "running", !.calls[a] = @ + 1]
  /\ UNCHANGED <<tvars, bg, evars, svars, rvars, tmux, mgr, ex, zvars>>

\* gather: every runner is done; the caller gets the list of results.
GatherReturn ==
  /\ conc.caller = "awaiting"
  /\ \A a \in 1..conc.nargs : conc.st[a] = "done"
  /\ conc' = [conc EXCEPT !.caller = "returned"]
  /\ UNCHANGED <<tvars, bg, evars, svars, rvars, tmux, mgr, ex, zvars>>

\* The exception leaves main: asyncio.run cancels the tasks still pending.
CancelPending ==
  /\ conc.caller = "raised"
  /\ \E a \in Args : conc.st[a] \in {"created", "waiting", "woken", "running"}
  /\ conc' = [conc EXCEPT !.waiters = <<>>,
                !.st = [a \in Args |-> IF conc.st[a] \in {"created", "waiting", "woken", "running"}
                                       THEN "cancelled" ELSE conc.st[a]]]
  /\ UNCHANGED <<tvars, bg, evars, svars, rvars, tmux, mgr, ex, zvars>>

ConcNext ==
  \/ \E max_concurrency \in 0..MaxConcurrency, nargs \in 0..NArgs :
       RunWithBoundedConcurrency(max_concurrency, nargs)
  \/ \E a \in Args : RunnerStart(a)
  \/ \E a \in Args : FnReturn(a)
  \/ \E a \in Args : FnRaise(a)
  \/ \E a \in Args : RunnerResume(a)
  \/ GatherReturn
  \/ CancelPending

\* ------------------------------------------------------------ srht.py main
\* main submits the jobs, then polls: print the statuses, leave the loop if
\* every job is terminal, else sleep and refresh; at the end sys.exit(1)
\* unless every job is SUCCESS.
NJobs == 2

MaxPolls == 2

Jobs == 1..NJobs

\* JobStatus.is_terminal
TerminalStatuses == {"SUCCESS", "FAILED", "TIMEOUT", "CANCELLED"}

\* JobStatus.from_str: the statuses a status query can give.
ServerStatuses == {"PENDING", "QUEUED", "RUNNING"} \cup TerminalStatuses

is_terminal(status) == status \in TerminalStatuses

InitMgr ==
  mgr = [pc |-> "start", njobs |-> 0, jobs |-> [j \in Jobs |-> "none"],
         polls |-> 0, asked |-> {}, exit |-> -1, crashed |-> FALSE]

\* JobManager._jobs as a set of indices.
Submitted == 1..mgr.njobs

are_jobs_terminated == \A j \in Submitted : is_terminal(mgr.jobs[j])

are_jobs_successful == \A j \in Submitted : mgr.jobs[j] = "SUCCESS"

\* start_group_from_manifest: one job per manifest, status UNKNOWN.
StartGroup(njobs) ==
  /\ mgr.pc = "start"
  /\ mgr' = [mgr EXCEPT !.pc = "loop", !.njobs = njobs,
                        !.jobs = [j \in Jobs |-> IF j <= njobs THEN "UNKNOWN" ELSE "none"]]
  /\ UNCHANGED <<tvars, bg, evars, svars, rvars, tmux, conc, ex, zvars>>

\* A loop that stops as soon as some job is terminal.
LoopCheck_any ==
  /\ mgr.pc = "loop"
  /\ mgr' = [mgr EXCEPT !.pc = IF \E j \in Submitted : is_terminal(mgr.jobs[j])
                               THEN "final" ELSE "sleep"]
  /\ UNCHANGED <<tvars, bg, evars, svars, rvars, tmux, conc, ex, zvars>>

\* The head of the loop: print_status_line; break if are_jobs_terminated().
LoopCheck ==
  /\ mgr.pc = "loop"
  /\ mgr' = [mgr EXCEPT !.pc = IF are_jobs_terminated THEN "final" ELSE "sleep"]
  /\ UNCHANGED <<tvars, bg, evars, svars, rvars, tmux, conc, ex, zvars>>

\* An update that asks the server about every job.
queries_server_always(j) == TRUE

\* _get_updated_job reaches get_job_status for job j: only past the early
\* return `if job.status.is_terminal(): return job`.
queries_server(j) == ~is_terminal(mgr.jobs[j])

\* _get_updated_job: a terminal job is returned as it is, any other gets
\* the status the server reports.
get_updated_job(j, reported) == IF queries_server(j) THEN reported[j] ELSE mgr.jobs[j]

\* asyncio.sleep, then refresh_job_statuses: _jobs becomes the updated list.
Refresh(reported) ==
  /\ mgr.pc = "sleep"
  /\ mgr.polls < MaxPolls
  /\ mgr' = [mgr EXCEPT !.pc = "loop", !.polls = @ + 1,
                        !.asked = {j \in Submitted : queries_server(j)},
                        !.jobs = [j \in Jobs |-> IF j \in Submitted
                                                 THEN get_updated_job(j, reported) ELSE "none"]]
  /\ UNCHANGED <<tvars, bg, evars, svars, rvars, tmux, conc, ex, zvars>>

\* A status query raises: the exception leaves main and the interpreter
\* exits with a traceback and code 1.
RefreshRaise ==
  /\ mgr.pc = "sleep"
  /\ mgr' = [mgr EXCEPT !.pc = "exited", !.exit = 1, !.crashed = TRUE]
  /\ UNCHANGED <<tvars, bg, evars, svars, rvars, tmux, conc, ex, zvars>>

\* After the loop: print_job_links; sys.exit(1) unless are_jobs_successful().
Final ==
  /\ mgr.pc = "final"
  /\ mgr' = [mgr EXCEPT !.pc = "exited", !.exit = IF are_jobs_successful THEN 0 ELSE 1]
  /\ UNCHANGED <<tvars, bg, evars, svars, rvars, tmux, conc, ex, zvars>>

MgrNext ==
  \/ \E njobs \in 0..NJobs : StartGroup(njobs)
  \/ LoopCheck
  \/ \E reported \in [Jobs -> ServerStatuses] : Refresh(reported)
  \/ RefreshRaise
  \/ Final

\* ------------------------------------------------- the prompt, byte by byte
\* _setup_dotfiles: PS1='\nThisIsThePrompt $?:\n\n' (zsh: %?), and
\* _wait_for_prompt: child.expect(PROMPT_MAGIC + r" (\d+):"), then
\* int(child.match.group(1)).  Texts are sequences of characters.
MaxReads == 2

PROMPT_MAGIC ==
  <<"T", "h", "i", "s", "I", "s", "T", "h", "e", "P", "r", "o", "m", "p", "t">>

\* The statuses $? can have.
ExitStatuses == 0..255

DigitChars == <<"0", "1", "2", "3", "4", "5", "6", "7", "8", "9">>

IsDigit(ch) == \E d \in 1..10 : DigitChars[d] = ch

DigitValue(ch) == (CHOOSE d \in 1..10 : DigitChars[d] = ch) - 1

\* The shell's expansion of $? : the status in decimal.
RECURSIVE str(_)
str(i) == IF i < 10 THEN <<DigitChars[i + 1]>>
          ELSE str(i \div 10) \o <<DigitChars[(i % 10) + 1]>>

\* A decoding that reads one digit only.
int_first_digit(ds) == DigitValue(ds[1])

\* int(child.match.group(1))
RECURSIVE int(_)
int(ds) == IF ds = <<>> THEN 0
           ELSE 10 * int(SubSeq(ds, 1, Len(ds) - 1)) + DigitValue(ds[Len(ds)])

\* What the shell prints for its prompt after a command of status status.
PromptText(status) ==
  <<LF>> \o PROMPT_MAGIC \o <<" ">> \o str(status) \o <<":", LF, LF>>

\* \d+ : the length of the run of digits of text that starts at position p.
RECURSIVE DigitRun(_, _)
DigitRun(text, p) ==
  IF p <= Len(text) /\ IsDigit(text[p]) THEN 1 + DigitRun(text, p + 1) ELSE 0

\* The pattern matches text at position p: the marker, a space, one or more
\* digits, a colon.
MatchAt(text, p) ==
  LET q == p + Len(PROMPT_MAGIC)
      run == DigitRun(text, q + 1)
  IN /\ q + 2 <= Len(text)
     /\ SubSeq(text, p, q - 1) = PROMPT_MAGIC
     /\ text[q] = " "
     /\ run >= 1
     /\ q + run + 1 <= Len(text)
     /\ text[q + run + 1] = ":"

NoMatch == [found |-> FALSE, last |-> 0, code |-> 0]

\* re.search of the pattern in text: the leftmost match, the position of its
\* last character and the integer of its group.
search(text) ==
  IF \E p \in 1..Len(text) : MatchAt(text, p)
  THEN LET p == Least({ r \in 1..Len(text) : MatchAt(text, r) })
           q == p + Len(PROMPT_MAGIC)
           run == DigitRun(text, q + 1)
       IN [found |-> TRUE, last |-> q + run + 1,
           code |-> int(SubSeq(text, q + 1, q + run))]
  ELSE NoMatch

\* An expect that searches only what the latest read brought.
Searched_incoming(buffer, incoming) == incoming

\* expect searches everything read and not yet matched: its buffer with the
\* incoming bytes appended.
Searched(buffer, incoming) == buffer \o incoming

InitEx ==
  ex = [phase |-> "none", status |-> 0, wire |-> <<>>, buffer |-> <<>>,
        nreads |-> 0, matches |-> <<>>]

\* A command ends with the given status and the shell prints its prompt.
PromptPrinted(status) ==
  /\ ex.phase = "none"
  /\ ex' = [ex EXCEPT !.phase = "wait", !.status = status, !.wire = PromptText(status)]
  /\ UNCHANGED <<tvars, bg, evars, svars, rvars, tmux, conc, mgr, zvars>>

\* The state of pexpect after a search of text with incoming bytes taken
\* from the wire: on a match the buffer keeps what follows the match.
AfterSearch(text, rest, phase) ==
  LET m == search(text)
  IN [ex EXCEPT !.wire = rest,
                !.nreads = @ + 1,
                !.buffer = IF m.found THEN SubSeq(text, m.last + 1, Len(text)) ELSE ex.buffer \o SubSeq(ex.wire, 1, Len(ex.wire) - Len(rest)),
                !.matches = IF m.found THEN Append(@, m.code) ELSE @,
                !.phase = IF phase = "wait" /\ ~m.found THEN "wait"
                          ELSE IF phase = "wait" THEN "matched" ELSE "done"]

\* The expect of _wait_for_prompt reads the next i bytes: the first read
\* ends anywhere, the second brings the rest.
ExpectRead(i) ==
  /\ ex.phase = "wait"
  /\ i \in 1..Len(ex.wire)
  /\ ex.nreads < MaxReads
  /\ ex.nreads = MaxReads - 1 => i = Len(ex.wire)
  /\ ex' = AfterSearch(Searched(ex.buffer, SubSeq(ex.wire, 1, i)),
                       SubSeq(ex.wire, i + 1, Len(ex.wire)), "wait")
  /\ UNCHANGED <<tvars, bg, evars, svars, rvars, tmux, conc, mgr, zvars>>

\* The expect of a later wait, before anything new was printed: it reads
\* what was left and searches it after what the buffer still held.
ExpectNext ==
  /\ ex.phase = "matched"
  /\ ex' = AfterSearch(Searched(ex.buffer, ex.wire), <<>>, "matched")
  /\ UNCHANGED <<tvars, bg, evars, svars, rvars, tmux, conc, mgr, zvars>>

ExNext ==
  \/ \E status \in ExitStatuses : PromptPrinted(status)
  \/ \E i \in 1..(Len(PROMPT_MAGIC) + 9) : ExpectRead(i)
  \/ ExpectNext

\* ----------------------------------------------------- TermNameProvider
\* Names asked of one TermNameProvider.
MaxNames == 11

\* The fixture term_name_provider makes one TermNameProvider per test.
Providers == 1..2

\* f"term{self.n}"
term_name(k) == <<"t", "e", "r", "m">> \o str(k)

\* One counter for all providers: a call on any of them moves every one.
counter_after_global(ns, p) == [q \in DOMAIN ns |-> ns[q] + 1]

\* self.n += 1 : the counters after a call of make_name on provider p.
counter_after(ns, p) == [ns EXCEPT ![p] = @ + 1]

\* n[p] = 0: provider p is not constructed yet.
InitProv == prov = [n |-> [p \in Providers |-> 0], names |-> [p \in Providers |-> <<>>]]

\* TermNameProvider.__init__
NewProvider(p) ==
  /\ prov.n[p] = 0
  /\ prov' = [prov EXCEPT !.n[p] = 1]
  /\ UNCHANGED <<tvars, bg, evars, svars, rvars, yvars, rel>>

\* TermNameProvider.make_name on provider p; names[p] records what it
\* returned, in order.
ProviderMakeName(p) ==
  /\ prov.n[p] >= 1
  /\ Len(prov.names[p]) < MaxNames
  /\ prov' = [n |-> counter_after(prov.n, p),
              names |-> [prov.names EXCEPT ![p] = Append(@, term_name(prov.n[p]))]]
  /\ UNCHANGED <<tvars, bg, evars, svars, rvars, yvars, rel>>

ProvNext ==
  \/ \E p \in Providers : NewProvider(p)
  \/ \E p \in Providers : ProviderMakeName(p)

\* ------------------------------------------------------------ release.py
\* Runs listed for one workflow when a single function is applied to a list.
MaxListed == 2

\* Runs listed for each of the three workflows of a combined status.
MaxPerWorkflow == 2

\* max_repeat = 90
MaxRepeat == 90

CI_WORKFLOWS == <<"lint", "test-macos", "test-ubuntu">>

\* The statuses pending_run_id accepts.
PendingStatuses == {"expected", "in_progress", "pending", "queued", "requested", "waiting"}

\* A workflow run as the API lists it, without its id: a completed run has a
\* conclusion, a run not completed has none.
RunKinds ==
  [status : {"completed"}, conclusion : {"success", "failure"}, event : {"push", "pull_request"}]
  \cup [status : PendingStatuses, conclusion : {"none"}, event : {"push", "pull_request"}]

\* The kinds used where three lists are drawn at once.
FewKinds ==
  { [status |-> "completed", conclusion |-> "success", event |-> "push"],
    [status |-> "completed", conclusion |-> "failure", event |-> "push"],
    [status |-> "completed", conclusion |-> "success", event |-> "pull_request"],
    [status |-> "in_progress", conclusion |-> "none", event |-> "push"],
    [status |-> "queued", conclusion |-> "none", event |-> "pull_request"] }

\* runs["workflow_runs"]: lists of at most len runs of the given kinds; the
\* id of a run is its position in the list.
RunLists(kinds, len) ==
  UNION { { [i \in 1..k |-> [id |-> i, status |-> f[i].status, conclusion |-> f[i].conclusion, event |-> f[i].event]] : f \in [1..k -> kinds] } : k \in 0..len }

\* Python's None where a run id is expected; ids are positive.
NoRunId == 0

\* The condition of successful_run_id on one run.
IsSuccessfulRun(run) ==
  run.status = "completed" /\ run.conclusion = "success" /\ run.event = "push"

\* The condition of pending_run_id on one run.
IsPendingRun(run) == run.status \in PendingStatuses /\ run.event = "push"

\* successful_run_id: the id of the first run of the list that satisfies
\* the condition, None when the loop ends without one.
RECURSIVE successful_run_id(_)
successful_run_id(workflow_runs) ==
  IF workflow_runs = <<>> THEN NoRunId
  ELSE IF IsSuccessfulRun(Head(workflow_runs)) THEN Head(workflow_runs).id
  ELSE successful_run_id(Tail(workflow_runs))

\* pending_run_id: `return None` stands in the body of the for loop, after
\* the if, so the loop body returns on the first run whatever it is; an
\* empty list falls off the end of the function, which returns None too.
pending_run_id(workflow_runs) ==
  IF workflow_runs = <<>> THEN NoRunId
  ELSE IF IsPendingRun(Head(workflow_runs)) THEN Head(workflow_runs).id
  ELSE NoRunId

\* get_combined_ci_status from workflow number i on, with result so far;
\* runs[i] is what query_ci_runs returns for CI_WORKFLOWS[i].
RECURSIVE combined_from(_, _, _)
combined_from(runs, i, result) ==
  IF i > Len(CI_WORKFLOWS) THEN result
  ELSE IF successful_run_id(runs[i]) # NoRunId THEN combined_from(runs, i + 1, result)
  ELSE IF pending_run_id(runs[i]) # NoRunId THEN combined_from(runs, i + 1, "PENDING")
  ELSE "FAILURE"

get_combined_ci_status(runs) == combined_from(runs, 1, "SUCCESS")

InitRel ==
  rel = [pc |-> "none", list |-> <<>>, successful |-> NoRunId, pending |-> NoRunId,
         runs |-> <<>>, status |-> "UNKNOWN",
         max_repeat |-> 0, sleeps |-> 0, polls |-> 0, npending |-> 0, exit |-> -1,
         crashed |-> FALSE]

\* successful_run_id and pending_run_id applied to one list of runs.
RunIds(workflow_runs) ==
  /\ rel.pc = "none"
  /\ rel' = [rel EXCEPT !.pc = "ids", !.list = workflow_runs,
                        !.successful = successful_run_id(workflow_runs),
                        !.pending = pending_run_id(workflow_runs)]
  /\ UNCHANGED <<tvars, bg, evars, svars, rvars, yvars, prov>>

\* get_combined_ci_status(sha), the API answering runs for the workflows.
GetCombinedCiStatus(runs) ==
  /\ rel.pc = "none"
  /\ rel' = [rel EXCEPT !.pc = "combined", !.runs = runs,
                        !.status = get_combined_ci_status(runs)]
  /\ UNCHANGED <<tvars, bg, evars, svars, rvars, yvars, prov>>

\* The lists a function is applied to, offered as long as none was applied.
ListInputs == IF rel.pc = "none" THEN RunLists(RunKinds, MaxListed) ELSE {}

\* What the API answers for the three workflows, likewise.
QueryInputs ==
  IF rel.pc = "none" THEN [1..Len(CI_WORKFLOWS) -> RunLists(FewKinds, MaxPerWorkflow)] ELSE {}

CiNext ==
  \/ \E workflow_runs \in ListInputs : RunIds(workflow_runs)
  \/ \E runs \in QueryInputs : GetCombinedCiStatus(runs)

\* wait_ci(args): max_repeat = 90, then the loop.
WaitCi ==
  /\ rel.pc = "none"
  /\ rel' = [rel EXCEPT !.pc = "sleep", !.max_repeat = MaxRepeat]
  /\ UNCHANGED <<tvars, bg, evars, svars, rvars, yvars, prov>>

\* time.sleep(10) at the head of the loop body.
Sleep ==
  /\ rel.pc = "sleep"
  /\ rel' = [rel EXCEPT !.pc = "poll", !.sleeps = @ + 1]
  /\ UNCHANGED <<tvars, bg, evars, svars, rvars, yvars, prov>>

\* A loop without the time-out branch.
timed_out_never(max_repeat) == FALSE

\* if max_repeat == 0
timed_out(max_repeat) == max_repeat = 0

\* status = get_combined_ci_status(args.hash) and the branches after it:
\* return on SUCCESS, sys.exit(1) on FAILURE, sys.exit(1) when max_repeat
\* is 0, else max_repeat -= 1 and round again.  polls counts the polls and
\* npending those that gave PENDING.
Poll(runs) ==
  LET status == get_combined_ci_status(runs)
  IN /\ rel.pc = "poll"
     /\ rel.polls <= MaxRepeat + 2
     /\ rel' = [rel EXCEPT
          !.status = status,
          !.polls = @ + 1,
          !.npending = IF status = "PENDING" THEN @ + 1 ELSE @,
          !.pc = IF status = "SUCCESS" THEN "returned"
                 ELSE IF status = "FAILURE" \/ timed_out(rel.max_repeat) THEN "exited"
                 ELSE "sleep",
          !.exit = IF status = "SUCCESS" THEN 0
                   ELSE IF status = "FAILURE" \/ timed_out(rel.max_repeat) THEN 1
                   ELSE @,
          !.max_repeat = IF status = "PENDING" /\ ~timed_out(rel.max_repeat) THEN @ - 1 ELSE @]
     /\ UNCHANGED <<tvars, bg, evars, svars, rvars, yvars, prov>>

\* The gh command of a query fails: check_output raises, the exception
\* leaves wait_ci and the interpreter exits with a traceback and code 1.
PollRaise ==
  /\ rel.pc = "poll"
  /\ rel' = [rel EXCEPT !.pc = "exited", !.exit = 1, !.crashed = TRUE]
  /\ UNCHANGED <<tvars, bg, evars, svars, rvars, yvars, prov>>

\* What the API answers at one poll of wait_ci.
WaitInputs ==
  IF rel.pc = "poll" THEN [1..Len(CI_WORKFLOWS) -> RunLists(FewKinds, 1)] ELSE {}

WaitNext ==
  \/ WaitCi
  \/ Sleep
  \/ \E runs \in WaitInputs : Poll(runs)
  \/ PollRaise

\* ---------------------------------------------------------- specification
\* plugin.py term_name_provider: TermNameProvider().n = 1; Sandbox.__init__
\* leaves an empty root.
Init ==
  /\ n = 1
  /\ name = [t \in Terms |-> 0]
  /\ pc = [t \in Terms |-> "none"]
  /\ ncalls = 0
  /\ cmds = [t \in Terms |-> <<>>]
  /\ cur = [t \in Terms |-> NoCur]
  /\ outcome = [t \in Terms |-> NoOutcome]
  /\ sh = [t \in Terms |-> "none"]
  /\ shcur = [t \in Terms |-> 0]
  /\ ended = [t \in Terms |-> 0]
  /\ inq = [t \in Terms |-> <<>>]
  /\ pty = [t \in Terms |-> <<>>]
  /\ buf = [t \in Terms |-> <<>>]
  /\ tee = [t \in Terms |-> [k \in 1..MaxK |-> [s \in Streams |-> NoTee]]]
  /\ slot = [nm \in Names |-> [s \in Streams |-> [tmp |-> NoFile, fin |-> NoFile]]]
  /\ bg = [t \in Terms |-> <<>>]
  /\ env = 0
  /\ childenv = [t \in Terms |-> -1]
  /\ via = [t \in Terms |-> NoVia]
  /\ scope = [st |-> "body", td |-> [t \in Terms |-> "none"]]
  /\ InitSandbox
  /\ InitRc
  /\ InitTmux
  /\ InitConc
  /\ InitMgr
  /\ InitEx
  /\ InitProv
  /\ InitRel

Next ==
  \/ \E t \in Terms : CreateTerm(t, TRUE, "make_term")
  \/ \E t \in Terms : DrainRead(t)
  \/ \E t \in Terms : InitDrainTimeout(t)
  \/ \E t \in Terms, c \in UserCmds, so \in BOOLEAN, se \in BOOLEAN : RunCall(t, c, so, se)
  \/ \E t \in Terms : DrainTimeout(t)
  \/ \E t \in Terms : DrainEOF(t)
  \/ \E t \in Terms : WaitPrompt(t)
  \/ \E t \in Terms : WaitEOF(t)
  \/ \E t \in Terms : WaitTimeout(t)
  \/ \E t \in Terms : ReadOutput(t)
  \/ \E t \in Terms : ReadSleep(t)
  \/ \E t \in Terms : ReadGiveUp(t)
  \/ \E t \in Terms : ShellStart(t)
  \/ \E t \in Terms : ShellExec(t)
  \/ \E t \in Terms : ShellFinish(t)
  \/ \E t \in Terms : ShellDie(t)
  \/ \E t \in Terms, k \in 1..MaxK, s \in Streams : TeeWrite(t, k, s)
  \/ \E t \in Terms, k \in 1..MaxK, s \in Streams : TeeExitMv(t, k, s)

Spec == Init /\ [][Next]_vars


\* The driver of Term t is a thread of the test process: a step it can take
\* is taken. (What the test body asks for next is its own choice.)
Driver(t) ==
  \/ DrainRead(t) \/ InitDrainTimeout(t) \/ DrainTimeout(t) \/ DrainEOF(t)
  \/ WaitPrompt(t) \/ WaitEOF(t) \/ WaitTimeout(t)
  \/ ReadOutput(t) \/ ReadSleep(t) \/ ReadGiveUp(t)

FairSpec == Spec /\ \A t \in Terms : WF_vars(Driver(t))

\* The child and the pipelines of Term t: the steps the driver does not take.
Child(t) ==
  \/ ShellStart(t) \/ ShellExec(t) \/ ShellFinish(t) \/ ShellDie(t)
  \/ \E k \in 1..MaxK, s \in Streams : TeeWrite(t, k, s)
  \/ \E k \in 1..MaxK, s \in Streams : TeeExitMv(t, k, s)

\* One Term on a terminal that also shows what the driver did not ask for:
\* the echo of a command line that holds the marker, and the output of
\* background jobs. The caller asks for stdout when the command writes some.
TtyTerm == 1
TtyNext ==
  \/ CreateTerm(TtyTerm, TRUE, "make_term")
  \/ \E c \in UserCmds \cup MarkerCmds :
        RunCall(TtyTerm, c, CmdTable[c].stdout # <<>>, TRUE)
  \/ Driver(TtyTerm)
  \/ Child(TtyTerm)
  \/ BackgroundWrite(TtyTerm)

TtySpec == Init /\ [][TtyNext]_vars

\* One Term whose shell has a background job that keeps writing to the
\* terminal. The driver is never held up, and neither is the job.
ChattyNext ==
  \/ CreateTerm(TtyTerm, TRUE, "make_term")
  \/ \E c \in UserCmds : RunCall(TtyTerm, c, CmdTable[c].stdout # <<>>, TRUE)
  \/ Driver(TtyTerm)
  \/ Child(TtyTerm)
  \/ ChattyWrite(TtyTerm)

ChattySpec ==
  /\ Init
  /\ [][ChattyNext]_vars
  /\ WF_vars(Driver(TtyTerm))
  /\ WF_vars(ChattyWrite(TtyTerm))

\* The Terms of one test from their creation, by the term fixture or by the
\* make_term factory, to the teardown of the test. The test is one thread:
\* it starts an operation of the driver when the one before has ended. The
\* body runs at most one command on a Term.
ScopeNext ==
  \/ ScopeCreate(1, TRUE, "term")
  \/ \E t \in Terms, login_sock \in BOOLEAN : ScopeCreate(t, login_sock, "make_term")
  \/ \E t \in Terms : ScopeRun(t)
  \/ \E t \in Terms : Driver(t)
  \/ \E t \in Terms : Child(t)
  \/ Teardown

ScopeSpec == Init /\ [][ScopeNext]_vars

\* The Sandbox alone: its allocations, the servers on its sockets, and the
\* end of its scope.
SandboxSpec == Init /\ [][SandboxNext]_vars

\* The unit tests of set-socklink-section: a test writes its rc file, or
\* leaves it missing, and runs the subcommand on it.
RcSpec == Init /\ [][RcNext]_vars

\* The integration tests with several clients of one tmux server.
TmuxSpec == Init /\ [][TmuxNext]_vars

\* One call of _run_with_bounded_concurrency on the event loop of main.
ConcSpec == Init /\ [][ConcNext]_vars

\* One run of the SourceHut runner.
MgrSpec == Init /\ [][MgrNext]_vars

\* One prompt read by pexpect in one or two reads.
ExSpec == Init /\ [][ExNext]_vars

\* The name providers of two tests, their calls interleaved.
ProvSpec == Init /\ [][ProvNext]_vars

\* release.py: the run-id functions and the combined status, on every list.
CiSpec == Init /\ [][CiNext]_vars

\* release.py wait-ci: the process runs on, every sleep and every query
\* coming back.
WaitSpec == Init /\ [][WaitNext]_vars /\ WF_vars(WaitNext)

\* ------------------------------------------------------------ properties
Runs(t) == 1..Len(cmds[t])
StatusOf(t, k) == CmdTable[cmds[t][k].c].status
\* The shell has run command k of t to its end.
Completed(t, k) == ended[t] >= k
\* The file holds everything command k of t wrote to stream s, and only that.
Complete(f, s) ==
  /\ ~f.junk
  /\ f.len = Len(Output(cmds[f.owner[1]][f.owner[2]].c, s))

\* C1: the exit code run acts on is the status the shell reported for the
\* command of that very run: the prompt matched by _wait_for_prompt is the
\* one printed after that command, never the start-up prompt or the prompt
\* of an earlier command.
C1_ExitCodeOfOwnCommand ==
  \A t \in Terms : cur[t].of # -1 => cur[t].of = Len(cmds[t])

\* C2: when the command of a run has ended with a nonzero status, the run
\* has not returned normally: it raised TermCommandError with that status
\* and with the command's own stderr text, newline-trimmed.
C2_NonzeroExitRaises ==
  \A t \in Terms :
    LET o == outcome[t]
    IN (/\ o.k > 0
        /\ Completed(t, o.k)
        /\ StatusOf(t, o.k) # 0
        /\ o.res \in {"return", "TermCommandError"})
       => /\ o.res = "TermCommandError"
          /\ o.code = StatusOf(t, o.k)
          /\ cmds[t][o.k].stderr => o.text = rstrip(Output(cmds[t][o.k].c, "stderr"))

\* C3: when a command run with stdout=True has exited with status 0 and run
\* returns, the text returned is the whole of what that command wrote to
\* stdout, newline-trimmed: not a prefix of it, not the text of another
\* command.
C3_StdoutExactAndComplete ==
  \A t \in Terms :
    LET o == outcome[t]
    IN (/\ o.k > 0
        /\ o.res = "return"
        /\ cmds[t][o.k].stdout
        /\ Completed(t, o.k)
        /\ StatusOf(t, o.k) = 0)
       => /\ o.src.owner = <<t, o.k>>
          /\ Complete(o.src, "stdout")
          /\ o.text = rstrip(Output(cmds[t][o.k].c, "stdout"))

\* The child's output has ended and holds no prompt the wait could match.
StreamClosed(t) ==
  pc[t] = "wait" /\ sh[t] = "dead" /\ ~HasPrompt(buf[t] \o pty[t])

\* C4: when the child's output ends before a prompt is seen, the wait ends,
\* and it ends with pexpect.EOF: the run neither returns (exit code 0) nor
\* raises TermCommandError, and the caller does not stay blocked.
C4_ClosedStreamIsDistinctFailure ==
  /\ [][\A t \in Terms : (StreamClosed(t) /\ pc'[t] # "wait") =>
          (outcome'[t].res = "EOF" /\ pc'[t] = "failed")]_vars
  /\ \A t \in Terms : StreamClosed(t) ~> (pc[t] = "failed" /\ outcome[t].res = "EOF")

C4_Witness ==
  \E t \in Terms : outcome[t].res = "EOF" /\ outcome[t].at = "wait" /\ pc[t] = "failed"

\* Command lines written to the child that the shell has not run to their end.
InFlight(t) == Len(inq[t]) + (IF sh[t] = "running" THEN 1 ELSE 0)

\* C5: a Term has at most one command in flight: no command line is written
\* to the child while an earlier one has not finished in the shell.
C5_OneCommandInFlight == \A t \in Terms : InFlight(t) <= 1

\* The redirections of all runs so far: <<Term, run, stream>>.
Redirections == {x \in Terms \X (1..MaxK) \X Streams :
                   x[2] \in Runs(x[1]) /\ x[3] \in cmds[x[1]][x[2]].redir}
PathOf(x) == <<cmds[x[1]][x[2]].nm, x[3]>>

C7_CaptureOfOwnSession ==
  \A t \in Terms : outcome[t].src # NoFile => outcome[t].src.owner[1] = t

C7_Witness ==
  \A t \in Terms :
    /\ outcome[t].res = "return"
    /\ outcome[t].src.owner = <<t, 1>>
    /\ outcome[t].text = <<"p">>

\* C8: a final capture path that exists holds the complete output of the
\* command that produced it.
C8_FinalFileComplete ==
  \A nm \in Names, s \in Streams :
    slot[nm][s].fin # NoFile => Complete(slot[nm][s].fin, s)

\* The run needed a capture file to produce its result.
NeedsCapture(t, o) ==
  \/ o.res = "return" /\ cmds[t][o.k].stdout
  \/ o.res = "TermCommandError" /\ cmds[t][o.k].stderr

\* C9: a capture that does not arrive within the polling bound ends the run
\* with FileNotFoundError: the poll stops at the bound, and a run that needs
\* a capture never returns or raises TermCommandError without having read it.
C9_MissingCaptureIsReported ==
  /\ [][\A t \in Terms :
          (pc[t] = "read" /\ pc'[t] # "read"
             /\ slot[capture_name(t)][ReadStream(t)].fin = NoFile)
          => (outcome'[t].res = "FileNotFoundError" /\ pc'[t] = "failed")]_vars
  /\ [](\A t \in Terms :
          /\ cur[t].polls <= PollBudget
          /\ (outcome[t].k > 0 /\ NeedsCapture(t, outcome[t])) => outcome[t].src # NoFile)
  /\ \A t \in Terms : (pc[t] = "read") ~> (pc[t] # "read")

C9_Witness ==
  \E t \in Terms : outcome[t].res = "FileNotFoundError" /\ cur[t].polls = PollBudget

\* C10 (as claimed): every command has its stderr redirected, whatever the
\* arguments; its stdout is redirected exactly when stdout was requested.
C10_StderrAlwaysRedirected ==
  \A t \in Terms : \A k \in Runs(t) :
    /\ "stderr" \in cmds[t][k].redir
    /\ "stdout" \in cmds[t][k].redir <=> cmds[t][k].stdout

\* The shell has started command k of t.
Started(t, k) == shcur[t] = k \/ Completed(t, k)

\* C10 (amended): stderr is redirected to a capture file exactly when the
\* stderr argument is true (its default), stdout exactly when stdout was
\* requested; a stream that is not redirected gets no pipeline, and a
\* TermCommandError for a command run with stderr=False carries no text.
C10_RedirectedAsRequested ==
  \A t \in Terms : \A k \in Runs(t) :
    /\ "stderr" \in cmds[t][k].redir <=> cmds[t][k].stderr
    /\ "stdout" \in cmds[t][k].redir <=> cmds[t][k].stdout
    /\ \A s \in Streams : tee[t][k][s].ph = "open" => s \in cmds[t][k].redir
    /\ (outcome[t].k = k /\ outcome[t].res = "TermCommandError" /\ ~cmds[t][k].stderr)
         => (outcome[t].text = <<>> /\ outcome[t].src = NoFile)

C10_Witness ==
  \E t \in Terms : \E k \in Runs(t) :
    /\ ~cmds[t][k].stderr
    /\ Started(t, k)
    /\ tee[t][k]["stderr"].ph = "none"

\* --------------------------------------------------- Sandbox properties
\* The calls of _shutdown_tmux_socket that shutdown_all call number c made.
AttemptsOf(c) == {j \in 1..Len(shutlog) : shutlog[j].call = c}
\* Reservations / shutdown attempts for path p.
ReservedTimes(p) ==
  Cardinality({j \in 1..Len(issued) : issued[j].kind = "socket" /\ issued[j].path = p})
AttemptedTimes(p) == Cardinality({j \in 1..Len(shutlog) : shutlog[j].sock = p})
\* A call of shutdown_all_tmux_sockets has returned and nothing was reserved since.
AfterShutdownAll == sbx.pc # "shutdown" /\ sbx.calls >= 1 /\ sbx.resv = 0

\* C14: every path make_unique_file or reserve_tmux_socket has returned is
\* distinct from the path of every other such call, also of a call made
\* after an earlier reservation was returned.
C14_IssuedPathsDistinct ==
  \A i, j \in 1..Len(issued) : i # j => issued[i].path # issued[j].path

\* C15: shutdown_all_tmux_sockets is idempotent: a second call with no
\* reservation in between attempts no shutdown, and the registry is as the
\* first call left it: empty.
C15_ShutdownAllIdempotent ==
  (sbx.again /\ sbx.resv = 0) =>
     /\ AttemptsOf(sbx.calls) = {}
     /\ tmux_sockets = <<>>
     /\ sbx.todo = 0

C15_Witness ==
  /\ sbx.again
  /\ sbx.pc = "done"
  /\ AttemptsOf(1) # {}

\* C16: whichever way the scope of the Sandbox ends (the body returns, at
\* its end or early, or raises), shutdown_all_tmux_sockets is run, and when
\* the scope has ended every reserved socket has had its shutdown attempt.
C16_EveryExitShutsDown ==
  /\ sbx.ended # "no" => (sbx.calls >= 1 /\ sbx.back = "exit" /\ sbx.pc \in {"shutdown", "done"})
  /\ sbx.pc = "done" =>
       /\ tmux_sockets = <<>>
       /\ \A p \in Paths : AttemptedTimes(p) >= ReservedTimes(p)

C16_Witness ==
  /\ sbx.pc = "done"
  /\ sbx.ended = "raise"
  /\ \E p \in Paths : ReservedTimes(p) >= 1 /\ AttemptedTimes(p) >= 1

\* C17: a socket whose server is gone, or whose kill-server fails, does not
\* end the call: nothing is raised, every socket of the registry gets its
\* attempt, and the registry is empty when the call has returned.
C17_ShutdownFailureNonFatal ==
  /\ ~sbx.raised
  /\ AfterShutdownAll =>
       /\ tmux_sockets = <<>>
       /\ Cardinality(AttemptsOf(sbx.calls)) = sbx.todo

C17_Witness ==
  /\ AfterShutdownAll
  /\ \E i, j \in AttemptsOf(sbx.calls) :
       /\ i < j
       /\ shutlog[i].res \in {"absent", "CalledProcessError"}
       /\ shutlog[j].res = "killed"
  /\ \E i \in AttemptsOf(sbx.calls) : shutlog[i].res = "CalledProcessError"

\* ------------------------------------------------ terminal and scope
\* C11: a drain that sees no bytes within its timeout is not an error: the
\* drain returns, nothing is raised to the caller of run, and run goes on
\* to send the command (in __init__: to run `tty`).
C11_EmptyDrainIsSilent ==
  [][\A t \in Terms :
       (pty[t] = <<>> /\ sh[t] # "dead" /\ pc'[t] # pc[t]) =>
          /\ pc[t] = "drain" =>
               /\ pc'[t] = "wait"
               /\ inq'[t] = Append(inq[t], Len(cmds[t]))
               /\ outcome'[t] = outcome[t]
          /\ pc[t] = "init_drain" =>
               /\ pc'[t] = "drain"
               /\ Len(cmds'[t]) = 1
               /\ outcome'[t] = outcome[t]]_vars

C11_Witness ==
  \E t \in Terms : pc[t] = "wait" /\ sh[t] = "starting" /\ inq[t] = <<1>>

\* C12: what a background job writes to the terminal never is in the text
\* a run returns, or raises as stderr: not when it is written between two
\* calls of run, nor at any other time.
C12_BackgroundOutputNotCaptured ==
  \A t \in Terms : \A i \in 1..Len(outcome[t].text) : outcome[t].text[i] # BgText[1]

C12_Witness ==
  \E t \in Terms :
    /\ outcome[t].k >= 2
    /\ outcome[t].res \in {"return", "TermCommandError"}
    /\ outcome[t].src # NoFile
    /\ \E i \in 1..Len(bg[t]) : bg[t][i] = outcome[t].k - 1

\* C13: the wait for completion accepts the marker and digits only where
\* they stand on a line of their own: what it matched is a prompt line,
\* never the middle of a line of command echo or of output.
C13_LineAnchoredMatch ==
  \A t \in Terms : cur[t].typ \in {"none", "prompt"}

\* C18: when the scope of the test has ended, the child of every Term the
\* test made, through the term fixture or through make_term, has been
\* terminated.
C18_ChildrenTerminated ==
  scope.st = "done" => \A t \in Terms : Constructed(t) => sh[t] = "dead"

\* C19 (as claimed): Terms share no mutable state: what the creation of a
\* Term wrote is never changed by the creation of, or a command on,
\* another Term.
C19_NoSharedMutableState ==
  \A t \in Terms : pc[t] # "none" => env = login_env(via[t].login_sock, name[t])

\* C19 (amended): the Terms share SSH_AUTH_SOCK of the test process: it holds
\* what the creation of the latest Term set, whatever earlier creations left
\* there and whatever commands ran since; the child of every Term was
\* spawned with the value its own creation set.
C19_SharedEnvOwnChildEnv ==
  \A t \in Terms : pc[t] # "none" =>
    /\ childenv[t] = login_env(via[t].login_sock, name[t])
    /\ name[t] = n - 1 => env = login_env(via[t].login_sock, name[t])

C19_Witness ==
  /\ pc[1] = "idle" /\ pc[2] = "idle"
  /\ via[1].login_sock /\ ~via[2].login_sock
  /\ childenv[1] = name[1]
  /\ env = 0

\* ------------------------------------------------------------------- C20
\* C20: running set-socklink-section twice on the same file with different
\* body text leaves exactly one BEGIN/END-delimited section (one BEGIN line,
\* one END line after it), and the lines between the two are the body of the
\* latest run.
LatestTwoDiffer ==
  /\ Len(rcruns) >= 2
  /\ rcruns[Len(rcruns)].body # rcruns[Len(rcruns) - 1].body

Interior(text) ==
  LET sec == SectionOf(text) IN SubSeq(text, sec[1] + 2, sec[2] - 1)

C20_OneSectionLatestBody ==
  LatestTwoDiffer =>
    /\ Cardinality(MarkerLines(rc.text, BEGIN)) = 1
    /\ Cardinality(MarkerLines(rc.text, END)) = 1
    /\ SectionOf(rc.text) # <<0, 0>>
    /\ Interior(rc.text) = rcruns[Len(rcruns)].body

\* Two runs with different bodies on a file that had text but no section
\* before the first run.
C20_Witness ==
  /\ LatestTwoDiffer
  /\ rcruns[1].before.exists
  /\ rcruns[1].before.text \in PlainTexts \ {<<>>}
  /\ rcruns[2].body # <<>>

\* ------------------------------------------------------------------- C21
\* The file as run k of set-socklink-section left it.
RcAfter(k) == IF k = Len(rcruns) THEN rc.text ELSE rcruns[k + 1].before.text

\* The text with its last line completed by LF.
WithFinalLF(text) == IF text[Len(text)] = LF THEN text ELSE text \o <<LF>>

\* C21: a run on a file without a section appends the section after the
\* existing content with exactly one blank line between them, whether or not
\* the content ended in LF; on a missing or empty file the section starts at
\* the first line.  In all cases the END line is the last line of the file
\* and the lines between the marker lines are the body and nothing else.
C21_AppendWithOneBlankLine ==
  \A k \in 1..Len(rcruns) :
    LET before == rcruns[k].before.text
        after == RcAfter(k)
        sec == SectionOf(after)
    IN SectionOf(before) = <<0, 0>> =>
         /\ sec # <<0, 0>>
         /\ sec[2] = Len(after) - 1 /\ after[Len(after)] = LF
         /\ Interior(after) = rcruns[k].body
         /\ IF before = <<>> THEN sec[1] = 1
            ELSE /\ SubSeq(after, 1, sec[1] - 2) = WithFinalLF(before)
                 /\ after[sec[1] - 1] = LF

\* A section appended to content that did not end in LF.
C21_Witness ==
  /\ Len(rcruns) >= 1
  /\ rcruns[1].before.text \in { <<"a">>, <<"a", LF, "b">> }
  /\ rcruns[1].body # <<>>
  /\ SectionOf(RcAfter(1)) # <<0, 0>>

\* ------------------------------------------------------------------- C22
\* C22: a run on a file that already has a section changes only the lines
\* between the two marker lines: the text before the BEGIN line, and the text
\* from the END line on, are the same after the run as before it.
C22_OutsideSectionUnchanged ==
  \A k \in 1..Len(rcruns) :
    LET before == rcruns[k].before.text
        after == RcAfter(k)
        old == SectionOf(before)
        new == SectionOf(after)
    IN old # <<0, 0>> =>
         /\ new[1] = old[1]
         /\ SubSeq(after, 1, new[1] + 1) = SubSeq(before, 1, old[1] + 1)
         /\ new[2] > new[1]
         /\ SubSeq(after, new[2], Len(after)) = SubSeq(before, old[2], Len(before))

\* A test's file with text on both sides of its section, rewritten with a
\* body that differs from the old interior.
C22_Witness ==
  /\ Len(rcruns) >= 1
  /\ LET before == rcruns[1].before.text
     IN /\ SectionOf(before) # <<0, 0>>
        /\ SectionOf(before)[1] > 1
        /\ SectionOf(before)[2] + 1 < Len(before)
        /\ Interior(before) # rcruns[1].body
        /\ Interior(RcAfter(1)) = rcruns[1].body

\* ------------------------------------------------------------------- C23
\* C23: with Terms attached to one tmux server after setup, the server link
\* resolves, once the hooks have settled, to the login socket of the Term
\* that most recently became the active or attached client.
C23_LinkFollowsActiveClient ==
  (Settled /\ tmux.active # 0 /\ tmux.login[tmux.active])
    => tmux.link = login_auth_sock(tmux.active)

\* Both Terms are clients, the link went to the second Term's socket and,
\* the first being active again, has flipped back to the first's.
C23_Witness ==
  /\ Settled
  /\ tmux.clients = Terms
  /\ tmux.login[1] /\ tmux.login[2]
  /\ tmux.active = 1
  /\ tmux.was = login_auth_sock(2)
  /\ tmux.link = login_auth_sock(1)

\* ------------------------------------------------------------------- C24
\* Nothing of the call can happen any more: no runner is about to run,
\* holds a permit or is inside fn.
ConcQuiet ==
  /\ conc.caller # "none"
  /\ \A a \in Args : conc.st[a] \notin {"created", "woken", "running"}
  /\ conc.caller = "awaiting" => \E a \in Args : conc.st[a] = "waiting"

InvokedOnce == \A a \in 1..conc.nargs : conc.calls[a] = 1

\* C24 as stated: at no time are more than max_concurrency invocations of fn
\* in progress, and the call invokes fn exactly once per argument, whatever
\* the argument list and however the invocations complete.
C24_BoundedAndExactlyOnce ==
  /\ Cardinality(InProgress) <= conc.max
  /\ (ConcQuiet \/ conc.caller = "returned") => InvokedOnce

\* C24 amended: at no time are more than max_concurrency invocations in
\* progress, and fn is never invoked twice for one argument; when the call
\* returns, fn has been invoked exactly once per argument and every
\* invocation has returned.  With max_concurrency = 0 and arguments to run
\* no invocation is ever made and the call does not return.
C24_BoundedAtMostOnce ==
  /\ Cardinality(InProgress) <= conc.max
  /\ \A a \in Args : conc.calls[a] <= 1
  /\ conc.caller = "returned"
       => InvokedOnce /\ \A a \in 1..conc.nargs : conc.st[a] = "done"
  /\ (conc.max = 0 /\ conc.nargs > 0)
       => conc.caller # "returned" /\ \A a \in Args : conc.calls[a] = 0

\* More arguments than permits: the call has returned after a runner had to
\* wait for a permit.
C24_Witness ==
  /\ conc.caller = "returned"
  /\ conc.nargs = NArgs
  /\ conc.max = 1
  /\ InvokedOnce

\* ------------------------------------------------------------------- C25
\* C25: the runner stops polling (leaves its loop) only when every submitted
\* job has a terminal status, and it then exits with a nonzero code if and
\* only if at least one job's final status is not SUCCESS.
C25_StopsWhenAllTerminal ==
  /\ (mgr.pc = "final" \/ (mgr.pc = "exited" /\ ~mgr.crashed)) => are_jobs_terminated
  /\ mgr.pc = "exited"
       => (mgr.exit # 0 <=> \E j \in Submitted : mgr.jobs[j] # "SUCCESS")

\* The runner polled at least once and exited with code 1 because one job
\* failed while another succeeded.
C25_Witness ==
  /\ mgr.pc = "exited"
  /\ ~mgr.crashed
  /\ mgr.polls >= 1
  /\ mgr.exit = 1
  /\ mgr.jobs[1] = "SUCCESS"
  /\ mgr.jobs[2] = "FAILED"

\* ------------------------------------------------------------------- C26
\* C26: the text a run returns as stdout, or raises as the stderr of
\* TermCommandError, was written by the command of that same run, never by
\* the command of an earlier run on the same Term.
C26_CaptureOfOwnCommand ==
  \A t \in Terms :
    outcome[t].src # NoFile => outcome[t].src.owner = <<t, outcome[t].k>>

\* ------------------------------------------------------------------- C27
\* C27: what the child emitted before the drain of a run, a whole prompt
\* line included, never satisfies the wait of that run: when a wait finds
\* its marker, pexpect held no marker read before the command was sent.
C27_DrainDiscardsEarlierPrompts ==
  [][\A t \in Terms :
       (pc[t] = "wait" /\ cur'[t] # cur[t]) => ~HasPrompt(buf[t])]_vars

\* ------------------------------------------------------------------- C28
\* C28: every run takes its steps in this order: both final capture files of
\* the Term are removed, and the drain has finished, before the command line
\* is written to the child; the command is written before the wait starts;
\* no capture file is read before the completion marker has been observed.
C28_StepsInOrder ==
  [][\A t \in Terms :
       /\ (pc'[t] = "drain" /\ pc[t] # "drain")
            => \A s \in Streams : slot'[capture_name(t)][s].fin = NoFile
       /\ (inq'[t] # inq[t] /\ Len(inq'[t]) > Len(inq[t]))
            => pc[t] = "drain" /\ pty[t] = <<>> /\ pc'[t] = "wait"
       /\ (pc'[t] = "wait" /\ pc[t] # "wait")
            => pc[t] = "drain" /\ inq'[t] = Append(inq[t], Len(cmds[t]))
       /\ (pc'[t] = "read" /\ pc[t] # "read")
            => pc[t] = "wait" /\ cur'[t].typ # "none"
       /\ (outcome'[t] # outcome[t] /\ outcome'[t].src # NoFile)
            => pc[t] = "read" /\ cur[t].typ # "none"]_vars

\* A second run on a Term has gone through all its steps and returned the
\* text of a capture file, one that existed before the run began.
C28_Witness ==
  \E t \in Terms :
    /\ pc[t] = "idle"
    /\ outcome[t].k = 2
    /\ outcome[t].at = "read"
    /\ outcome[t].src # NoFile
    /\ cmds[t][1].stdout /\ cmds[t][2].stdout

\* ------------------------------------------------------------------- C29
\* C29: a completion line that reaches the driver split across two reads,
\* cut at any position of the marker or of the digits, is still recognised,
\* exactly once, and gives the exit code it gives when it comes in one read:
\* once all its bytes are read, the waits have matched once, with the status
\* the shell printed.
C29_SplitPromptRecognisedOnce ==
  /\ (ex.phase # "none" /\ ex.wire = <<>>) => ex.matches = <<ex.status>>
  /\ Len(ex.matches) <= 1
  /\ ex.phase = "done" => ex.matches = <<ex.status>>

\* A prompt of a three-digit status was cut inside its digits, matched by
\* the second read, and not matched again by the next wait.
C29_Witness ==
  /\ ex.phase = "done"
  /\ ex.status = 255
  /\ ex.nreads = 3
  /\ ex.matches = <<255>>

\* ------------------------------------------------------------------- C30
\* C30: for every exit status s in 0..255 the prompt text made from the
\* template of _setup_dotfiles is matched by the pattern _wait_for_prompt
\* waits for, and the integer decoded from the match is s.
C30_PromptRoundTrip ==
  /\ \A s \in ExitStatuses :
       (ex.phase # "none" /\ ex.status = s /\ ex.nreads = 1 /\ ex.wire = <<>>)
         => ex.phase = "matched" /\ ex.matches[1] = s
  /\ ex.phase # "none"
       => /\ search(PromptText(ex.status)).found
          /\ search(PromptText(ex.status)).code = ex.status

\* The prompt of status 255 was read whole and matched as 255.
C30_Witness ==
  /\ ex.phase = "matched"
  /\ ex.status = 255
  /\ ex.nreads = 1
  /\ ex.wire = <<>>
  /\ ex.matches = <<255>>

\* ------------------------------------------------------------------- C31
\* C31: the drain always terminates: whatever the child does, a child that
\* keeps producing output included, a drain that has begun comes to its end.
C31_DrainTerminates ==
  \A t \in Terms :
    (pc[t] \in {"init_drain", "drain"}) ~> (pc[t] \notin {"init_drain", "drain"})

\* ------------------------------------------------------------------- C32
\* C32: the shell of a Term created with login_sock=True has SSH_AUTH_SOCK
\* equal to that Term's own login_auth_sock, and the shell of a Term created
\* with login_sock=False has it unset, whatever Terms were created before
\* and with whatever login_sock.
C32_ShellHasOwnAuthSock ==
  \A t \in Terms : pc[t] # "none" =>
    IF via[t].login_sock THEN childenv[t] = login_auth_sock(name[t])
    ELSE childenv[t] = 0

\* A Term without a login socket made after one with a login socket, and a
\* Term with one made after one without.
C32_Witness ==
  \E t, u \in Terms :
    /\ pc[t] # "none" /\ pc[u] # "none"
    /\ name[t] < name[u]
    /\ via[t].login_sock /\ ~via[u].login_sock
    /\ childenv[t] = login_auth_sock(name[t])
    /\ childenv[u] = 0

\* ------------------------------------------------------------------- C33
\* C33: terminal names come from a generator each test owns, not from a
\* shared counter: the names one TermNameProvider returns are pairwise
\* distinct, and the k-th name a provider returns is term<k> whatever was
\* asked of another provider before, between or after.
C33_NamesPerProvider ==
  \A p \in Providers :
    /\ \A i, j \in DOMAIN prov.names[p] : i # j => prov.names[p][i] # prov.names[p][j]
    /\ \A k \in DOMAIN prov.names[p] : prov.names[p][k] = term_name(k)

\* One provider has returned names into the two-digit numbers while the
\* other, made and used in between, has returned fewer.
C33_Witness ==
  /\ Len(prov.names[1]) = MaxNames
  /\ Len(prov.names[2]) = 3
  /\ prov.names[1][10] # prov.names[1][1]
  /\ prov.names[2][3] = prov.names[1][3]

\* ------------------------------------------------------------------- C34
\* C34: when a client without a login SSH_AUTH_SOCK attaches to (or becomes
\* the active client of) a tmux server whose link pointed at another
\* client's login socket, the link resolves, once the hooks have settled,
\* to no existing file; it does not keep resolving to the earlier client's
\* socket.
C34_NoSocketClientClearsLink ==
  (Settled /\ tmux.active # 0 /\ ~tmux.login[tmux.active])
    => /\ resolve_symlink(tmux.link) = NoTarget
       /\ \A t \in Terms : tmux.link # login_auth_sock(t)

\* The first Term attached with a login socket and the link resolved to it;
\* the second then attached without one, and the link resolves to nothing.
C34_Witness ==
  /\ Settled
  /\ tmux.clients = Terms
  /\ tmux.login[1] /\ ~tmux.login[2]
  /\ tmux.active = 2
  /\ resolve_symlink(tmux.was) = login_auth_sock(1)
  /\ resolve_symlink(tmux.link) = NoTarget

\* ------------------------------------------------------------------- C35
\* C35: a terminal job status is absorbing in JobManager: once the status of
\* a job is SUCCESS, FAILED, TIMEOUT or CANCELLED, no later
\* refresh_job_statuses asks the server about that job or changes its status.
C35_TerminalIsAbsorbing ==
  [][\A j \in Submitted :
       is_terminal(mgr.jobs[j]) =>
         /\ mgr'.jobs[j] = mgr.jobs[j]
         /\ (mgr'.polls # mgr.polls => j \notin mgr'.asked)]_vars

\* After a first refresh left job 1 FAILED and job 2 running, a second
\* refresh asked about job 2 only and job 1 is FAILED still.
C35_Witness ==
  /\ mgr.polls = 2
  /\ mgr.jobs[1] = "FAILED"
  /\ mgr.jobs[2] = "SUCCESS"
  /\ mgr.asked = {2}

\* ------------------------------------------------------------------- C36
\* The list has a completed, successful, push-triggered run.
HasSuccessfulRun(workflow_runs) ==
  \E i \in DOMAIN workflow_runs : IsSuccessfulRun(workflow_runs[i])

\* The list has a push-triggered run that is not completed yet.
HasPendingRun(workflow_runs) ==
  \E i \in DOMAIN workflow_runs : IsPendingRun(workflow_runs[i])

\* C36: get_combined_ci_status returns SUCCESS exactly when every workflow
\* of CI_WORKFLOWS has a completed, successful, push-triggered run, FAILURE
\* when some workflow has neither a successful nor a pending push-triggered
\* run, and PENDING otherwise.
C36_CombinedStatus ==
  rel.pc = "combined" =>
    rel.status =
      IF \A w \in DOMAIN rel.runs : HasSuccessfulRun(rel.runs[w]) THEN "SUCCESS"
      ELSE IF \E w \in DOMAIN rel.runs :
                ~HasSuccessfulRun(rel.runs[w]) /\ ~HasPendingRun(rel.runs[w])
           THEN "FAILURE"
      ELSE "PENDING"

\* ------------------------------------------------------------------- C37
\* C37: pending_run_id returns the id of a push-triggered run whose status
\* is one of expected, in_progress, pending, queued, requested, waiting
\* whenever the list has such a run at any position, and None only when it
\* has none.
C37_PendingRunFound ==
  rel.pc = "ids" =>
    IF HasPendingRun(rel.list)
    THEN \E i \in DOMAIN rel.list : IsPendingRun(rel.list[i]) /\ rel.pending = rel.list[i].id
    ELSE rel.pending = NoRunId

\* ------------------------------------------------------------------- C38
\* wait_ci is over: it returned, or the process exited.
WaitOver == rel.pc \in {"returned", "exited"}

\* What holds of wait_ci at every moment: at most 91 polls (max_repeat + 1),
\* each after a sleep of its own; the loop goes on only while every poll
\* gave PENDING and fewer than 91 were made; it returns only on SUCCESS; a
\* sys.exit is with code 1 and on a FAILURE or on the 91st PENDING.
WaitCiSafe ==
  /\ rel.polls <= MaxRepeat + 1
  /\ rel.sleeps = rel.polls + (IF rel.pc = "poll" \/ rel.crashed THEN 1 ELSE 0)
  /\ rel.pc \in {"sleep", "poll"} => rel.npending = rel.polls /\ rel.polls <= MaxRepeat
  /\ rel.pc = "returned" => rel.status = "SUCCESS" /\ rel.npending = rel.polls - 1
  /\ (rel.pc = "exited" /\ ~rel.crashed) =>
       /\ rel.exit = 1
       /\ \/ rel.status = "FAILURE" /\ rel.npending = rel.polls - 1
          \/ rel.status = "PENDING" /\ rel.npending = MaxRepeat + 1 /\ rel.polls = MaxRepeat + 1

\* C38: wait_ci always terminates, after at most 91 status polls each
\* preceded by a sleep: it returns normally only on SUCCESS, exits with
\* code 1 on the first FAILURE, and exits with code 1 once 91 polls have
\* all given PENDING.
C38_WaitCiTerminates == []WaitCiSafe /\ <>WaitOver

\* Ninety-one polls gave PENDING and the process exited with code 1.
C38_Witness ==
  /\ rel.pc = "exited"
  /\ ~rel.crashed
  /\ rel.exit = 1
  /\ rel.status = "PENDING"
  /\ rel.polls = MaxRepeat + 1
  /\ rel.sleeps = MaxRepeat + 1

====
